---------------------------- MODULE Spec2Model ----------------------------
(***************************************************************************)
(* A model of the walrus wallpaper daemon: the wallpaper queue, the        *)
(* control loop of Daemon::run, the IPC transport (lock file, socket,      *)
(* framed messages, accept loop) and the sources that feed the command     *)
(* channel (socket clients, the config watcher, the interrupt handler).    *)
(*                                                                         *)
(* Paths are numbered 1..MaxPaths in their lexicographic order.  Byte      *)
(* strings are run-length encoded: a sequence of <<byte, count>> runs, so  *)
(* that a payload longer than a u16 can be written down.                   *)
(***************************************************************************)
EXTENDS Integers, Sequences, FiniteSets, TLC

(* ------------------------------ bounds -------------------------------- *)

\* Number of wallpaper files below the root when the daemon starts.
MaxPaths == 3

\* Commands that socket clients, the watcher and the interrupt handler may
\* send in one run of the control-loop specification.
MaxEvents == 2

\* Wallpaper files that may disappear in one run.
MaxDeletes == 2

\* Commands that CLI clients may send in one run of the transport
\* specification.
MaxSends == 1

\* Connections that clients writing raw bytes may open in one run of the
\* transport specification.
MaxConns == 1

\* Times the config file may be removed in one run.
MaxRemoves == 1

\* Failures the start of the IPC server may meet in one run.
MaxFaults == 1

\* Advances whose course is remembered in one run.
MaxTrail == 3

(* ------------------------- program constants --------------------------- *)

\* The width of the length prefix: `cmd.len() as u16`.
U16 == 65536

\* Option::None of a path (paths are numbered from 1).
NoPath == 0

Min(a, b) == IF a < b THEN a ELSE b

Paths == 1..MaxPaths

(* ------------------------------ bytes ---------------------------------- *)

\* Number of bytes of a run-length encoded byte string.
RECURSIVE BLen(_)
BLen(b) == IF b = <<>> THEN 0 ELSE Head(b)[2] + BLen(Tail(b))

\* Canonical form: no empty run, no two adjacent runs of the same byte.
RECURSIVE BNorm(_)
BNorm(b) ==
    IF b = <<>> THEN <<>>
    ELSE IF Head(b)[2] = 0 THEN BNorm(Tail(b))
    ELSE LET r == BNorm(Tail(b)) IN
         IF r # <<>> /\ Head(r)[1] = Head(b)[1]
         THEN <<(<<Head(b)[1], Head(b)[2] + Head(r)[2]>>)>> \o Tail(r)
         ELSE <<Head(b)>> \o r

\* The first n bytes (all of b when it is shorter).
RECURSIVE BTake(_, _)
BTake(b, n) ==
    IF n = 0 \/ b = <<>> THEN <<>>
    ELSE IF Head(b)[2] <= n
         THEN <<Head(b)>> \o BTake(Tail(b), n - Head(b)[2])
         ELSE <<(<<Head(b)[1], n>>)>>

\* What is left after the first n bytes.
RECURSIVE BDrop(_, _)
BDrop(b, n) ==
    IF n = 0 \/ b = <<>> THEN b
    ELSE IF Head(b)[2] <= n
         THEN BDrop(Tail(b), n - Head(b)[2])
         ELSE <<(<<Head(b)[1], Head(b)[2] - n>>)>> \o Tail(b)

\* The i-th byte, counted from 0.
BAt(b, i) == Head(BDrop(b, i))[1]

\* A byte string written out byte by byte.
RECURSIVE Bytes(_)
Bytes(s) == IF s = <<>> THEN <<>> ELSE <<(<<Head(s), 1>>)>> \o Bytes(Tail(s))

\* Every byte of b is ASCII (the only UTF-8 the model writes).
RECURSIVE BAscii(_)
BAscii(b) == b = <<>> \/ (Head(b)[1] < 128 /\ BAscii(Tail(b)))

\* Little-endian bytes of n, w of them.
RECURSIVE LeBytes(_, _)
LeBytes(n, w) == IF w = 0 THEN <<>> ELSE <<n % 256>> \o LeBytes(n \div 256, w - 1)

\* The number that the first w bytes of b spell in little-endian order.
RECURSIVE LeValue(_, _)
LeValue(b, w) == IF w = 0 THEN 0 ELSE BAt(b, 0) + 256 * LeValue(BDrop(b, 1), w - 1)

(* ----------------------------- commands -------------------------------- *)

Tags == {"Categorise", "Config", "Next", "Pause", "Previous", "Reload",
         "Resume", "Shutdown"}

\* A command value; category is the empty string except for Categorise.
Cmd(tag) == [tag |-> tag, category |-> <<>>]

\* Option::None of a command.
NoCmd == Cmd("None")

Categorise(category) == [tag |-> "Categorise", category |-> BNorm(category)]

\* The variant index that the serializer writes as the first payload byte.
TagByte == [Categorise |-> 0, Config |-> 1, Next |-> 2, Pause |-> 3,
            Previous |-> 4, Reload |-> 5, Resume |-> 6, Shutdown |-> 7]

\* Variable-length encoding of an unsigned length: one byte below 251, else
\* a marker byte and the little-endian value.
VarintEncode(n) ==
    IF n < 251 THEN Bytes(<<n>>)
    ELSE IF n < U16 THEN Bytes(<<251>> \o LeBytes(n, 2))
    ELSE Bytes(<<252>> \o LeBytes(n, 4))

\* Commands::to_bytes: the variant index, then the fields of the variant.
to_bytes(c) ==
    IF c.tag = "Categorise"
    THEN BNorm(Bytes(<<TagByte[c.tag]>>) \o VarintEncode(BLen(c.category))
               \o c.category)
    ELSE Bytes(<<TagByte[c.tag]>>)

\* Decoding of the string field at the front of b: whether it decodes, and
\* the string.
DecodeString(b) ==
    IF BLen(b) = 0 THEN [ok |-> FALSE, s |-> <<>>]
    ELSE LET m == BAt(b, 0)
             w == IF m < 251 THEN 0 ELSE IF m = 251 THEN 2 ELSE 4
         IN  IF m > 252 \/ BLen(b) < 1 + w THEN [ok |-> FALSE, s |-> <<>>]
             ELSE LET n    == IF w = 0 THEN m ELSE LeValue(BDrop(b, 1), w)
                      body == BDrop(b, 1 + w)
                  IN  IF BLen(body) < n \/ ~BAscii(BTake(body, n))
                      THEN [ok |-> FALSE, s |-> <<>>]
                      ELSE [ok |-> TRUE, s |-> BNorm(BTake(body, n))]

\* Decoding of a payload by its variant index alone.
DecodeVariant(b) ==
    IF BLen(b) = 0 THEN NoCmd
    ELSE LET t == BAt(b, 0) IN
         IF \A g \in Tags : TagByte[g] # t THEN NoCmd
         ELSE LET tag == CHOOSE g \in Tags : TagByte[g] = t IN
              IF tag = "Categorise"
              THEN LET d == DecodeString(BDrop(b, 1)) IN
                   IF d.ok THEN Categorise(d.s) ELSE NoCmd
              ELSE Cmd(tag)

\* Commands::from_bytes: NoCmd for a payload that does not decode and for the
\* client-only Config variant, which the decoder rejects.
from_bytes(b) ==
    IF BLen(b) > 0 /\ BAt(b, 0) = TagByte["Config"] THEN NoCmd
    ELSE DecodeVariant(b)

\* IpcClient::send after connect: the bytes written to the stream, a 2-byte
\* little-endian length (the payload length cast to u16) and the payload.
FrameOf(c) ==
    LET cmd == to_bytes(c)
        len == LeBytes(BLen(cmd) % U16, 2)
    IN  BNorm(Bytes(len) \o cmd)

\* parse_stream blocks in read_exact: the stream is open and holds fewer
\* bytes than the read asks for.
ReadBlocks(conn) ==
    /\ ~conn.closed
    /\ \/ BLen(conn.bytes) < 2
       \/ BLen(conn.bytes) < 2 + LeValue(conn.bytes, 2)

\* A parse_stream that breaks the accept loop on a read or decode error.
parse_stream_breaks_on_error(bytes) ==
    IF BLen(bytes) < 2 THEN [fwd |-> NoCmd, brk |-> TRUE]
    ELSE LET len == LeValue(bytes, 2) IN
         IF BLen(bytes) < 2 + len THEN [fwd |-> NoCmd, brk |-> TRUE]
         ELSE LET command == from_bytes(BTake(BDrop(bytes, 2), len)) IN
              IF command = NoCmd THEN [fwd |-> NoCmd, brk |-> TRUE]
              ELSE [fwd |-> command, brk |-> command.tag = "Shutdown"]

\* parse_stream on a stream whose reads do not block: the command forwarded
\* to the channel (NoCmd when nothing is) and whether the accept loop breaks.
parse_stream(bytes) ==
    IF BLen(bytes) < 2 THEN [fwd |-> NoCmd, brk |-> FALSE]
    ELSE LET len == LeValue(bytes, 2) IN
         IF BLen(bytes) < 2 + len THEN [fwd |-> NoCmd, brk |-> FALSE]
         ELSE LET command == from_bytes(BTake(BDrop(bytes, 2), len)) IN
              IF command = NoCmd THEN [fwd |-> NoCmd, brk |-> FALSE]
              ELSE [fwd |-> command, brk |-> command.tag = "Shutdown"]

(* ------------------------------- paths --------------------------------- *)

\* The two category names whose directories Queue::new leaves out.
Like == Bytes(<<108, 105, 107, 101>>)

Dislike == Bytes(<<100, 105, 115, 108, 105, 107, 101>>)

\* The names `s == ".like" || s == ".dislike"` matches, without the dot.
Reserved == {Like, Dislike}

\* The category names that occur in the model, in the order of their
\* directories.
CatNames ==
    <<Dislike, <<(<<108, 1>>)>>, Like, <<(<<108, 2>>)>>, <<(<<108, U16>>)>>>>

CatIndex(c) == CHOOSE k \in 1..Len(CatNames) : CatNames[k] = c

\* The path root/.<c>/<rel> for the wallpaper root/<rel> numbered f: paths
\* below a dot directory are numbered below 0 and sort before the wallpapers.
LinkPath(c, f) == f - (Len(CatNames) + 1 - CatIndex(c)) * (MaxPaths + 1)

\* The category in whose directory path p lies, and the wallpaper that p
\* mirrors.
CatOf(p) == CatNames[Len(CatNames) + 1 - ((MaxPaths - p) \div (MaxPaths + 1))]

RelOf(p) == p + ((MaxPaths - p) \div (MaxPaths + 1)) * (MaxPaths + 1)

\* The links that the walk of the root comes by as regular files: those that
\* mirror a wallpaper of the root and whose target exists.
LiveLinks(fs, ls) == {l \in ls : l[2] \in fs}

\* Path::exists / Path::is_file with symlinks followed: the wallpaper files
\* and the links whose target exists.
Existing(fs, ls) == fs \cup {LinkPath(l[1], l[2]) : l \in LiveLinks(fs, ls)}

(* ------------------------------- queue --------------------------------- *)

\* A walk that keeps what lies below the reserved directories.
Queue_new_unfiltered(fs, ls) == Existing(fs, ls)

\* Queue::new: the regular files that the walk of the root finds, symlinks
\* followed, without those whose first component below the root is .like or
\* .dislike.
Queue_new(fs, ls) ==
    fs \cup {LinkPath(l[1], l[2]) :
                l \in {x \in LiveLinks(fs, ls) : x[1] \notin Reserved}}

\* The sequences that hold each element of set S exactly once.
RECURSIVE SeqsOf(_)
SeqsOf(S) ==
    IF S = {} THEN {<<>>}
    ELSE UNION {{<<x>> \o q : q \in SeqsOf(S \ {x})} : x \in S}

Range(q) == {q[k] : k \in 1..Len(q)}

\* Queue::sort: ascending path order.
RECURSIVE SortedSeq(_)
SortedSeq(S) ==
    IF S = {} THEN <<>>
    ELSE LET m == CHOOSE x \in S : \A y \in S : x <= y
         IN  <<m>> \o SortedSeq(S \ {m})

Queue_sort(q, i) == [queue |-> SortedSeq(Range(q)), index |-> i]

\* Queue::shuffle: the orders the generator may produce; the index is reset.
Queue_shuffle(q) == {[queue |-> r, index |-> 0] : r \in SeqsOf(Range(q))}

\* Queue::get_current: self.queue.get(self.index).
get_current(q, i) == IF i < Len(q) THEN q[i + 1] ELSE NoPath

\* A step forward that stops at the last entry.
Queue_next_saturating(q, i) == IF q # <<>> THEN Min(i + 1, Len(q) - 1) ELSE i

\* Queue::next.
Queue_next(q, i) == IF q # <<>> THEN (i + 1) % Len(q) ELSE i

\* A step backward that stops at the first entry.
Queue_previous_saturating(q, i) == IF i > 0 THEN i - 1 ELSE i

\* Queue::previous.
Queue_previous(q, i) == IF q # <<>> THEN (i + Len(q) - 1) % Len(q) ELSE i

\* cleanup_invalid_files without the clamp of the index.
cleanup_keeps_index(q, i, f) ==
    [queue |-> SelectSeq(q, LAMBDA p : p \in f), index |-> i]

\* Queue::cleanup_invalid_files with the files of set f existing.
cleanup_invalid_files(q, i, f) ==
    LET kept == SelectSeq(q, LAMBDA p : p \in f)
    IN  [queue |-> kept,
         index |-> IF kept # <<>> THEN Min(i, Len(kept) - 1) ELSE i]

\* An advance that sets whatever entry it lands on.
advance_without_cleanup(q, i, f, forward) ==
    LET j == IF forward THEN Queue_next(q, i) ELSE Queue_previous(q, i)
        w == get_current(q, j)
    IN  [queue |-> q, index |-> j, set |-> w, shutdown |-> w = NoPath]

\* Daemon::advance_wallpaper: the queue and index afterwards, the wallpaper
\* handed to set_wallpaper (NoPath when none is) and whether a Shutdown is sent
\* to the daemon's own socket.
advance_wallpaper(q, i, f, forward) ==
    LET j   == IF forward THEN Queue_next(q, i) ELSE Queue_previous(q, i)
        cur == get_current(q, j)
        c   == IF cur # NoPath /\ cur \notin f
               THEN cleanup_invalid_files(q, j, f)
               ELSE [queue |-> q, index |-> j]
        w   == get_current(c.queue, c.index)
    IN  [queue |-> c.queue, index |-> c.index, set |-> w, shutdown |-> w = NoPath]

(* ------------------------------- state --------------------------------- *)

\* Process 1 is the daemon whose control loop is modelled; process 2 is a
\* second instance started against the same runtime directory.
Procs == {1, 2}

Intervals == {300, 60}

Configs == [interval : Intervals, shuffle : BOOLEAN]

\* Config::default().
DefaultConfig == [interval |-> 300, shuffle |-> TRUE]

\* The text of config.toml: a key is given (a set with its value) or left
\* out (the empty set), and the text as a whole parses or does not.
Texts ==
    [valid : BOOLEAN,
     interval : {{}} \cup {{i} : i \in Intervals},
     shuffle : {{}, {TRUE}, {FALSE}}]

\* The text of the file that get_config_file creates when there is none.
EmptyText == [valid |-> TRUE, interval |-> {}, shuffle |-> {}]

\* The text that spells out config c.
TextOf(c) == [valid |-> TRUE, interval |-> {c.interval}, shuffle |-> {c.shuffle}]

\* Option::unwrap_or.
unwrap_or(opt, d) == IF opt = {} THEN d ELSE CHOOSE x \in opt : TRUE

\* Config::from_raw with the accessors interval() and shuffle(): a text that
\* does not parse gives Config::default(), a key left out gives its default.
from_raw(text) ==
    LET t == IF text.valid THEN text ELSE EmptyText
    IN  [interval |-> unwrap_or(t.interval, DefaultConfig.interval),
         shuffle  |-> unwrap_or(t.shuffle, DefaultConfig.shuffle)]

\* utils::get_config_file: the file is created empty when it does not exist.
get_config_file(file) ==
    IF file.exists THEN file ELSE [exists |-> TRUE, text |-> EmptyText]

\* Config::new: read the file that get_config_file returns.
Config_new(file) == from_raw(get_config_file(file).text)

\* A reload that keeps the old value of every key the text leaves out.
reload_config_merging(old, file) ==
    LET f == get_config_file(file)
        t == IF f.text.valid THEN f.text ELSE EmptyText
    IN  [interval |-> unwrap_or(t.interval, old.interval),
         shuffle  |-> unwrap_or(t.shuffle, old.shuffle)]

\* Daemon::reload_config: the snapshot is replaced by Config::new().
reload_config(old, file) == Config_new(file)

\* A loop that reads the interval once, before its first wait.
NextWait_hoisted(cfg, prev) == prev

\* The timeout of a wait: the interval of the snapshot when the wait begins.
NextWait(cfg, prev) == cfg.interval

VARIABLES
    files,        \* wallpaper files that exist below the root
    config,       \* Daemon.config
    paused,       \* Daemon.paused
    queue,        \* Daemon.queue.queue
    index,        \* Daemon.queue.index
    links,        \* symlinks made by Categorise: <<category, path>>
    pc,           \* where each process is in main
    exitCode,     \* exit status of each process, -1 while it runs
    chan,         \* the mpsc channel: [cmd, seq], oldest first
    nextSeq,      \* arrival number of the next command sent to the channel
    lastApplied,  \* arrival number of the command dispatched last
    justSet,      \* wallpaper handed to the setter by the last loop step
    lockHeld,     \* processes holding an exclusive flock on walrus.lock
    sockExists,   \* a file exists at the socket path
    sockOwner,    \* process whose listener that file is, 0 for a stale file
    listener,     \* per process: its listening socket is open
    acc,          \* accept thread of process 1: none, accepting, exited
    conns,        \* connections queued on the listener of process 1
    last,         \* the connection the accept loop handled last
    printed,      \* the CLI printed the config to stdout
    cfgFile,      \* config.toml: whether it exists, and its text
    watch,        \* the watcher thread: none, armed, sleeping, dead
    wq,           \* file events delivered to the watcher thread, oldest first
    watched,      \* the kernel watches the file now at the config path
    wait,         \* timeout of the recv_timeout the loop is in
    elapsed,      \* seconds spent in that recv_timeout so far
    idle,         \* seconds since the loop last received a command
    swww,         \* the transition new_transition computed last
    hist,         \* the advances made, oldest first, the first budget.trail
    connected,    \* some Sender of the channel is alive
    budget        \* what the environment may still do in this run

vars == <<files, config, paused, queue, index, links, pc, exitCode, chan,
          nextSeq, lastApplied, justSet, lockHeld, sockExists, sockOwner,
          listener, acc, conns, last, printed, cfgFile, watch, wq, watched,
          wait, elapsed, idle, swww, hist, connected, budget>>

daemonVars == <<config, paused, queue, index, links>>

ipcVars == <<lockHeld, sockExists, sockOwner, listener, acc, conns, last>>

watchVars == <<watch, wq, watched>>

runVars == <<wait, hist, connected, elapsed, idle, swww>>

\* The threads of a process end with it.
WatcherGone == watch' = "none" /\ wq' = <<>> /\ watched' = FALSE

\* Sender::send: the command joins the channel behind those already there.
Send(ch, c, n) == Append(ch, [cmd |-> c, seq |-> n])

\* A connection as the server sees it: the bytes written so far, whether the
\* client has closed its end, and the command the client meant (NoCmd for a
\* client that writes raw bytes).
Conn(bytes, closed, sent) == [bytes |-> bytes, closed |-> closed, sent |-> sent]

\* No connection.
NoConn == Conn(<<>>, TRUE, Cmd("Nobody"))

\* UnixStream::connect to the socket path reaches the listener of process 1.
Connects == sockExists /\ sockOwner = 1 /\ listener[1]

(* ------------------------------ start-up ------------------------------- *)

\* A start-up that goes on whatever the queue holds.
is_empty_ignored(q) == FALSE

\* Queue::is_empty.
is_empty(q) == q = <<>>

\* main from Daemon::new to the ctrlc handler: Daemon::new walks the root; an
\* empty queue ends the process before the channel, the watcher, the handler
\* and the IPC server are set up; otherwise the watcher is started on the
\* config file, which get_config_file creates if it is missing.
DaemonNew ==
    /\ pc[1] = "start"
    /\ \E q \in SeqsOf(Queue_new(files, links)) :
         /\ queue' = q
         /\ index' = 0
         /\ paused' = FALSE
         /\ IF is_empty(q)
            THEN /\ pc' = [pc EXCEPT ![1] = "exited"]
                 /\ exitCode' = [exitCode EXCEPT ![1] = 0]
                 /\ UNCHANGED <<cfgFile, watchVars>>
            ELSE /\ pc' = [pc EXCEPT ![1] = "built"]
                 /\ cfgFile' = get_config_file(cfgFile)
                 /\ watch' = "armed"
                 /\ watched' = TRUE
                 /\ UNCHANGED <<exitCode, wq>>
    /\ UNCHANGED <<files, config, links, chan, nextSeq, lastApplied, justSet,
                   printed, budget>>
    /\ UNCHANGED <<ipcVars, runVars>>

\* A lock attempt that succeeds whoever holds the lock.
acquire_lock_blind(held) == TRUE

\* acquire_lock: flock(LOCK_EX | LOCK_NB) succeeds when no process holds the
\* lock.
acquire_lock(held) == held = {}

\* IpcServer::new: take the lock or exit with status 1; the guard for the
\* socket path is registered only after the lock is held.
IpcServer_new(p) ==
    /\ pc[p] = "built"
    /\ IF acquire_lock(lockHeld)
       THEN /\ lockHeld' = lockHeld \cup {p}
            /\ pc' = [pc EXCEPT ![p] = "locked"]
            /\ UNCHANGED exitCode
            /\ UNCHANGED watchVars
       ELSE /\ pc' = [pc EXCEPT ![p] = "exited"]
            /\ exitCode' = [exitCode EXCEPT ![p] = 1]
            /\ UNCHANGED lockHeld
            /\ IF p = 1 THEN WatcherGone ELSE UNCHANGED watchVars
    /\ UNCHANGED <<files, chan, nextSeq, lastApplied, justSet, printed, budget,
                   sockExists, sockOwner, listener, acc, conns, last>>
    /\ UNCHANGED <<daemonVars, runVars, cfgFile>>

\* A guard whose drop leaves the socket file in place.
DropServer_keeps_socket(p, code) ==
    /\ UNCHANGED <<sockExists, sockOwner>>
    /\ listener' = [listener EXCEPT ![p] = FALSE]
    /\ lockHeld' = lockHeld \ {p}
    /\ pc' = [pc EXCEPT ![p] = "exited"]
    /\ exitCode' = [exitCode EXCEPT ![p] = code]

\* Drop of IpcServer when main ends or unwinds: the guard unlinks the socket
\* path if it exists, then the lock is released; the process is gone.
DropServer(p, code) ==
    /\ sockExists' = FALSE
    /\ sockOwner' = 0
    /\ listener' = [listener EXCEPT ![p] = FALSE]
    /\ lockHeld' = lockHeld \ {p}
    /\ pc' = [pc EXCEPT ![p] = "exited"]
    /\ exitCode' = [exitCode EXCEPT ![p] = code]

\* The server bound with `let _ =`: it is dropped at once, and its lock with
\* it.
let_underscore(p, held) == held \ {p}

\* `let _ipc = ipc::start_server(..)`: the server lives until main ends, so
\* the locks held stay held.
let_ipc(p, held) == held

\* A start that leaves a socket file it finds where it is.
remove_file_skipped(exists) == exists

\* `if self.socket_path.exists() { fs::remove_file(..) }` went through:
\* whether a file is at the socket path afterwards.
remove_file(exists) == FALSE

\* How IpcServer::start can end: the listener is bound, which needs the path
\* to be free; or bind finds the path taken; or the socket file left behind
\* cannot be removed; or bind fails for another reason.
StartOutcomes(faults, taken) ==
    (IF taken THEN {"addr_in_use"} ELSE {"bound"})
        \cup (IF faults > 0 THEN {"remove_failed", "bind_failed"} ELSE {})

\* IpcServer::start: remove a socket file left behind, bind the listener and
\* spawn the accept thread.  A socket file that cannot be removed ends the
\* process with exit(1), which runs no destructor; a failed bind panics, and
\* the unwinding drops the server with its guard and its lock.
IpcServer_start(p) ==
    /\ pc[p] = "locked"
    /\ \E outcome \in StartOutcomes(budget.faults, remove_file(sockExists)) :
         CASE outcome = "bound" ->
                /\ sockExists' = TRUE
                /\ sockOwner' = p
                /\ listener' = [listener EXCEPT ![p] = TRUE]
                /\ acc' = IF p = 1 THEN "accepting" ELSE acc
                /\ pc' = [pc EXCEPT ![p] = "serving"]
                /\ lockHeld' = let_ipc(p, lockHeld)
                /\ UNCHANGED <<exitCode, budget, watchVars>>
           [] outcome = "remove_failed" ->
                /\ sockExists
                /\ lockHeld' = lockHeld \ {p}
                /\ pc' = [pc EXCEPT ![p] = "exited"]
                /\ exitCode' = [exitCode EXCEPT ![p] = 1]
                /\ budget' = [budget EXCEPT !.faults = @ - 1]
                /\ IF p = 1 THEN WatcherGone ELSE UNCHANGED watchVars
                /\ UNCHANGED <<sockExists, sockOwner, listener, acc>>
           [] outcome = "bind_failed" ->
                /\ DropServer(p, 101)
                /\ budget' = [budget EXCEPT !.faults = @ - 1]
                /\ IF p = 1 THEN WatcherGone ELSE UNCHANGED watchVars
                /\ UNCHANGED acc
           [] outcome = "addr_in_use" ->
                /\ DropServer(p, 101)
                /\ IF p = 1 THEN WatcherGone ELSE UNCHANGED watchVars
                /\ UNCHANGED <<acc, budget>>
    /\ UNCHANGED <<files, chan, nextSeq, lastApplied, justSet, printed,
                   conns, last>>
    /\ UNCHANGED <<daemonVars, runVars, cfgFile>>

\* Daemon::run before the loop: order the queue, set the first wallpaper.
RunStart ==
    /\ pc[1] = "serving"
    /\ \E r \in (IF config.shuffle THEN Queue_shuffle(queue)
                 ELSE {Queue_sort(queue, index)}) :
         /\ queue' = r.queue
         /\ index' = r.index
         /\ justSet' = get_current(r.queue, r.index)
    /\ pc' = [pc EXCEPT ![1] = "loop"]
    /\ wait' = config.interval
    /\ elapsed' = 0
    /\ idle' = 0
    /\ swww' = swww
    /\ UNCHANGED <<files, config, paused, links, exitCode, chan, nextSeq,
                   lastApplied, printed, budget, hist, connected>>
    /\ UNCHANGED <<ipcVars, watchVars, cfgFile>>

\* main of process 1 returns after run, or unwinds after a panic in run.
MainReturn ==
    /\ pc[1] \in {"terminated", "panicked", "unreachable"}
    /\ DropServer(1, IF pc[1] = "terminated" THEN 0 ELSE 101)
    /\ acc' = "none"
    /\ conns' = <<>>
    /\ WatcherGone
    /\ UNCHANGED last
    /\ UNCHANGED <<files, chan, nextSeq, lastApplied, justSet, printed, budget>>
    /\ UNCHANGED <<daemonVars, runVars, cfgFile>>

\* The second instance is started and comes to the start of its IPC server.
OtherInstanceMain ==
    /\ pc[2] = "start"
    /\ pc' = [pc EXCEPT ![2] = "built"]
    /\ UNCHANGED <<files, exitCode, chan, nextSeq, lastApplied, justSet,
                   printed, budget>>
    /\ UNCHANGED <<daemonVars, ipcVars, runVars, watchVars, cfgFile>>

\* The second instance, once it serves, runs until it is shut down.
OtherInstanceExit ==
    /\ pc[2] = "serving"
    /\ DropServer(2, 0)
    /\ UNCHANGED <<files, chan, nextSeq, lastApplied, justSet, printed, budget,
                   acc, conns, last>>
    /\ UNCHANGED <<daemonVars, runVars, watchVars, cfgFile>>

(* ---------------------------- control loop ----------------------------- *)

\* Commands that a user sends in the specification of the categories.
MaxMarks == 3

\* Connections the daemon's own send may queue behind before connect blocks.
MaxBacklog == 2

\* An advance that only logs the empty queue.
SelfSend_skipped(cs) == cs

\* ipc::send_command(Shutdown) from the control loop: a connection to the
\* daemon's own socket carrying the framed command; a refused connect is
\* ignored.
SelfSend(cs) ==
    IF Connects
    THEN Append(cs, Conn(FrameOf(Cmd("Shutdown")), TRUE, Cmd("Shutdown")))
    ELSE cs

\* What is remembered of one advance: its direction, the index before and
\* after, the length of the queue before, whether every entry's file existed
\* and whether the advance removed entries.
Trail(h, forward, r) ==
    IF Len(h) < budget.trail
    THEN Append(h, [forward |-> forward, from |-> index, to |-> r.index,
                    len |-> Len(queue),
                    clean |-> Range(queue) \subseteq Existing(files, links),
                    pruned |-> r.queue # queue])
    ELSE h

\* next_wallpaper / previous_wallpaper as one loop step.
Advance(forward) ==
    LET r == advance_wallpaper(queue, index, Existing(files, links), forward) IN
    /\ r.shutdown /\ Connects => Len(conns) < MaxBacklog
    /\ queue' = r.queue
    /\ index' = r.index
    /\ justSet' = r.set
    /\ conns' = IF r.shutdown THEN SelfSend(conns) ELSE conns
    /\ hist' = Trail(hist, forward, r)
    /\ UNCHANGED <<config, paused, links, cfgFile>>

\* A categorising that first takes the wallpaper out of every other
\* category.
create_category_symlink_exclusive(ls, src, category) ==
    IF category = <<>> THEN ls
    ELSE {l \in ls : l[2] # src} \cup {<<category, src>>}

\* Daemon::create_category_symlink for the current wallpaper: the link
\* root/.<category>/<rel> to src is made unless something is at that path
\* already, which symlink() reports and the daemon logs: the link itself, or,
\* for the empty name, whose directory root/. is the root, src.
create_category_symlink(ls, src, category) ==
    IF category = <<>> THEN ls ELSE ls \cup {<<category, src>>}

\* A pause that flips the flag.
pause_toggles(p) == ~p

\* Daemon::pause: the flag after it.
pause(p) == TRUE

\* Daemon::resume: the flag after it.
resume(p) == FALSE

\* A wait that goes on where the last one stopped: the time already spent
\* counts against the next timeout.
recv_timeout_resumed(spent) == spent

\* rx.recv_timeout(timeout) is called anew in every iteration: the time
\* spent in the call that begins is 0.
recv_timeout(spent) == 0

\* A receive that takes the newest command instead.
Recv_newest(ch) == ch[Len(ch)]

\* The command the loop takes from the channel next: the oldest one.
Recv(ch) == Head(ch)

\* A loop that goes on after the Shutdown arm.
LoopRuns_ignores_cont(at) == at \in {"loop", "terminated"}

\* `while cont`: the loop goes round until an arm has cleared cont.
LoopRuns(at) == at = "loop"

\* A Timeout arm that does not look at the paused flag.
Rotates_always(p) == TRUE

\* The Timeout arm changes the wallpaper unless the daemon is paused.
Rotates(p) == ~p

\* recv_timeout treats every error alike.
Disconnects_never(ch, alive) == FALSE

\* recv_timeout returns Disconnected: the channel is empty and no Sender is
\* left.
Disconnects(ch, alive) == ch = <<>> /\ ~alive

\* A Reload that also builds the queue anew and orders it as run does at
\* its start.
ReloadArm_rebuilds ==
    /\ config' = reload_config(config, cfgFile)
    /\ cfgFile' = get_config_file(cfgFile)
    /\ justSet' = NoPath
    /\ queue' = SortedSeq(Queue_new(files, links))
    /\ index' = 0
    /\ UNCHANGED <<paused, links, conns, pc, hist>>

\* The Reload arm: self.reload_config() replaces the config snapshot and
\* touches nothing else of the daemon.
ReloadArm ==
    /\ config' = reload_config(config, cfgFile)
    /\ cfgFile' = get_config_file(cfgFile)
    /\ justSet' = NoPath
    /\ UNCHANGED <<paused, queue, index, links, conns, pc, hist>>

\* One iteration of the loop in Daemon::run that receives a command.
Dispatch ==
    /\ LoopRuns(pc[1])
    /\ chan # <<>>
    /\ LET m == Recv(chan) IN
       /\ chan' = SelectSeq(chan, LAMBDA x : x.seq # m.seq)
       /\ lastApplied' = m.seq
       /\ CASE m.cmd.tag = "Config" ->
                 /\ pc' = [pc EXCEPT ![1] = "unreachable"]
                 /\ justSet' = NoPath
                 /\ UNCHANGED <<daemonVars, conns, hist, cfgFile>>
            [] m.cmd.tag = "Categorise" ->
                 /\ IF get_current(queue, index) = NoPath
                    THEN /\ pc' = [pc EXCEPT ![1] = "panicked"]
                         /\ UNCHANGED links
                    ELSE /\ links' = create_category_symlink(
                                links, get_current(queue, index), m.cmd.category)
                         /\ UNCHANGED pc
                 /\ justSet' = NoPath
                 /\ UNCHANGED <<config, paused, queue, index, conns, hist, cfgFile>>
            [] m.cmd.tag = "Next" ->
                 Advance(TRUE) /\ UNCHANGED pc
            [] m.cmd.tag = "Previous" ->
                 Advance(FALSE) /\ UNCHANGED pc
            [] m.cmd.tag = "Pause" ->
                 /\ paused' = pause(paused)
                 /\ justSet' = NoPath
                 /\ UNCHANGED <<config, queue, index, links, conns, pc, hist, cfgFile>>
            [] m.cmd.tag = "Resume" ->
                 /\ paused' = resume(paused)
                 /\ justSet' = NoPath
                 /\ UNCHANGED <<config, queue, index, links, conns, pc, hist, cfgFile>>
            [] m.cmd.tag = "Reload" ->
                 ReloadArm
            [] m.cmd.tag = "Shutdown" ->
                 /\ pc' = [pc EXCEPT ![1] = "terminated"]
                 /\ justSet' = NoPath
                 /\ UNCHANGED <<daemonVars, conns, hist, cfgFile>>
    /\ wait' = IF LoopRuns(pc'[1]) THEN NextWait(config', wait) ELSE wait
    /\ elapsed' = recv_timeout(elapsed)
    /\ idle' = 0
    /\ swww' = swww
    /\ UNCHANGED <<files, exitCode, nextSeq, printed, budget, lockHeld,
                   sockExists, sockOwner, listener, acc, last, connected>>
    /\ UNCHANGED watchVars

\* One iteration whose recv_timeout ran out: no command was in the channel
\* for a whole interval.
Timeout ==
    /\ LoopRuns(pc[1])
    /\ chan = <<>>
    /\ ~Disconnects(chan, connected)
    /\ IF Rotates(paused)
       THEN Advance(TRUE)
       ELSE justSet' = NoPath /\ UNCHANGED <<daemonVars, conns, hist, cfgFile>>
    /\ wait' = NextWait(config', wait)
    /\ elapsed' = recv_timeout(elapsed)
    /\ idle' = idle
    /\ swww' = swww
    /\ UNCHANGED <<files, pc, exitCode, chan, nextSeq, lastApplied, printed,
                   budget, lockHeld, sockExists, sockOwner, listener, acc, last,
                   connected>>
    /\ UNCHANGED watchVars

\* One iteration whose recv_timeout found the channel disconnected: the arm
\* clears cont.
Disconnected ==
    /\ LoopRuns(pc[1])
    /\ Disconnects(chan, connected)
    /\ pc' = [pc EXCEPT ![1] = "terminated"]
    /\ justSet' = NoPath
    /\ UNCHANGED <<files, exitCode, chan, nextSeq, lastApplied, printed, budget,
                   cfgFile>>
    /\ UNCHANGED <<daemonVars, ipcVars, watchVars, runVars>>

(* ---------------------------- the transition ----------------------------- *)

\* TransitionFlavour: the four transitions the configuration can name.
Flavours == {"wipe", "wave", "grow", "outer"}

\* Side length of the unit circle's grid: an angle is the pair
\* <<cos, sin>> in fifths, so that every angle of the set has exact
\* coordinates (the axes and the 3-4-5 directions).
Fifths == 5

\* The angles random_range(0.0..360.0) is drawn from here.
Angles == {<<5, 0>>, <<0, 5>>, <<-5, 0>>, <<0, -5>>,
           <<4, 3>>, <<3, 4>>, <<-4, 3>>, <<3, -4>>}

\* Resolution: the monitor sizes of the configurations of the model.
Resolutions == {[width |-> 1920, height |-> 1080],
                [width |-> 800, height |-> 600]}

\* The configured base durations, in milliseconds.
Durations == {750, 3000}

\* The part of the configuration new_transition reads for the duration.
TransitionConfigs ==
    [duration : Durations, dynamic_duration : BOOLEAN, resolution : Resolutions]

Abs(n) == IF n < 0 THEN -n ELSE n

\* The diagonal of the monitor, rounded down to whole pixels.
Diagonal(res) ==
    LET n == res.width * res.width + res.height * res.height
    IN  CHOOSE d \in 0..(res.width + res.height) :
            d * d <= n /\ n < (d + 1) * (d + 1)

\* normalize_duration: base * diagonal / (width*|cos| + height*|sin|), in
\* whole milliseconds.
normalize_duration(base_duration, res, angle) ==
    LET distance_at_angle ==
            res.width * Abs(angle[1]) + res.height * Abs(angle[2])
        diagonal_distance == Diagonal(res)
    IN  (base_duration * diagonal_distance * Fifths) \div distance_at_angle

\* TransitionArgBuilder::with_duration: the value goes into the arguments as
\* it is.
with_duration(args, duration) == [args EXCEPT !.duration = duration]

\* No transition was computed yet.
NoTransition ==
    [flavour |-> "none", angle |-> <<0, 0>>, duration |-> 0,
     base |-> 0, dynamic |-> FALSE, res |-> [width |-> 0, height |-> 0]]

new_transition_always_normalizes(cfg, flavour, angle) ==
    with_duration([NoTransition EXCEPT !.flavour = flavour, !.angle = angle,
                                       !.base = cfg.duration,
                                       !.dynamic = cfg.dynamic_duration,
                                       !.res = cfg.resolution],
                  IF cfg.dynamic_duration
                  THEN normalize_duration(cfg.duration, cfg.resolution, angle)
                  ELSE cfg.duration)

\* new_transition, for the flavour and the angle the generator drew: the
\* arguments it hands to the setter, with the inputs they were computed from.
new_transition(cfg, flavour, angle) ==
    with_duration([NoTransition EXCEPT !.flavour = flavour, !.angle = angle,
                                       !.base = cfg.duration,
                                       !.dynamic = cfg.dynamic_duration,
                                       !.res = cfg.resolution],
                  IF flavour \in {"wipe", "wave"} /\ cfg.dynamic_duration
                  THEN normalize_duration(cfg.duration, cfg.resolution, angle)
                  ELSE cfg.duration)

\* The daemon computes the transition of the next wallpaper.
NewTransition ==
    /\ \E cfg \in TransitionConfigs, flavour \in Flavours, angle \in Angles :
          swww' = new_transition(cfg, flavour, angle)
    /\ UNCHANGED <<files, pc, exitCode, chan, nextSeq, lastApplied, printed,
                   budget, cfgFile, justSet, wait, hist, connected, elapsed,
                   idle>>
    /\ UNCHANGED <<daemonVars, ipcVars, watchVars>>

(* ------------------------- the legacy index loop ------------------------- *)

\* The number of values of the unsigned index. The model keeps the wraparound
\* and narrows the width: queues stay far shorter than this.
USIZE == 256

\* debug builds check unsigned arithmetic and panic; release builds wrap.
Builds == {"debug", "release"}

\* The outcome of an arithmetic step that panicked.
Overflow == -1

\* One unsigned addition or subtraction with the result n in the integers.
Checked(n, build) ==
    IF 0 <= n /\ n < USIZE THEN n
    ELSE IF build = "release" THEN n % USIZE
    ELSE Overflow

\* increment_index: (index + 1) % qlen.
increment_index(i, qlen, build) ==
    LET s == Checked(i + 1, build) IN
    IF s = Overflow THEN Overflow ELSE s % qlen

\* decrement_index: (index + qlen - 1) % qlen, evaluated left to right.
decrement_index(i, qlen, build) ==
    LET s == Checked(i + qlen, build)
        d == IF s = Overflow THEN Overflow ELSE Checked(s - 1, build)
    IN  IF d = Overflow THEN Overflow ELSE d % qlen

\* Vec::remove at a 0-based position.
Vec_remove(q, i) == SubSeq(q, 1, i) \o SubSeq(q, i + 2, Len(q))

\* The legacy update_index from the top of its while loop: the queue and the
\* index it leaves, what it ended with ("set", "shutdown" or "panic"), the
\* wallpaper it set, and whether `index -= 1` went below 0.
RECURSIVE update_index(_, _, _, _, _, _, _)
update_index(q, i, attempts, increment, exist, build, under) ==
    IF ~(attempts < Len(q))
    THEN [queue |-> q, index |-> i, out |-> "shutdown", set |-> NoPath,
          underflow |-> under]
    ELSE
      LET j == IF increment THEN increment_index(i, Len(q), build)
               ELSE decrement_index(i, Len(q), build)
      IN  IF j = Overflow
          THEN [queue |-> q, index |-> i, out |-> "panic", set |-> NoPath,
                underflow |-> under]
          ELSE IF q[j + 1] \notin exist
          THEN LET less == Checked(j - 1, build) IN
               IF less = Overflow
               THEN [queue |-> Vec_remove(q, j), index |-> j, out |-> "panic",
                     set |-> NoPath, underflow |-> TRUE]
               ELSE update_index(Vec_remove(q, j), less, attempts, increment,
                                 exist, build, under \/ j = 0)
          ELSE [queue |-> q, index |-> j, out |-> "set", set |-> q[j + 1],
                underflow |-> under]

\* The legacy next_wallpaper / previous_wallpaper as one loop step, in either
\* build.
LegacyAdvance(increment) ==
    /\ pc[1] = "loop"
    /\ \E build \in Builds :
         LET r == update_index(queue, index, 0, increment, files, build, FALSE)
         IN  /\ queue' = r.queue
             /\ index' = r.index
             /\ justSet' = r.set
             /\ pc' = [pc EXCEPT ![1] = IF r.out = "panic" THEN "panicked"
                                        ELSE "loop"]
             /\ hist' = <<[forward |-> increment, from |-> index,
                           to |-> r.index, len |-> Len(queue),
                           clean |-> Range(queue) \subseteq files,
                           pruned |-> r.queue # queue, out |-> r.out,
                           underflow |-> r.underflow]>>
    /\ UNCHANGED <<files, config, paused, links, exitCode, chan, nextSeq,
                   lastApplied, printed, budget, cfgFile, wait, connected,
                   elapsed, idle, swww>>
    /\ UNCHANGED <<ipcVars, watchVars>>

\* Seconds that pass in one step of the clock.
TickLen == 60

\* Time passes while the loop sits in recv_timeout, up to the timeout.
Tick ==
    /\ LoopRuns(pc[1])
    /\ elapsed < wait
    /\ elapsed' = Min(elapsed + TickLen, wait)
    /\ idle' = Min(idle + TickLen, DefaultConfig.interval)
    /\ swww' = swww
    /\ UNCHANGED <<files, pc, exitCode, chan, nextSeq, lastApplied, justSet,
                   printed, budget, cfgFile, wait, hist, connected>>
    /\ UNCHANGED <<daemonVars, ipcVars, watchVars>>

\* The Timeout arm at the moment recv_timeout returns it: the whole timeout
\* has passed in this call.
TimedOut == elapsed = wait /\ Timeout

(* ------------------------------- sources ------------------------------- *)

\* Process 1 has created the channel, the watcher and the interrupt handler.
SourcesUp == pc[1] \in {"built", "locked", "serving", "loop", "terminated"}

\* A handler that takes the signal and sends nothing.
Interrupt_ignored ==
    /\ SourcesUp
    /\ budget.events > 0
    /\ budget' = [budget EXCEPT !.events = @ - 1]
    /\ UNCHANGED <<files, pc, exitCode, chan, nextSeq, lastApplied, justSet,
                   printed>>
    /\ UNCHANGED <<daemonVars, ipcVars, runVars, watchVars, cfgFile>>

\* The ctrlc handler sends Shutdown straight to the channel.
Interrupt ==
    /\ SourcesUp
    /\ budget.events > 0
    /\ budget' = [budget EXCEPT !.events = @ - 1]
    /\ chan' = Send(chan, Cmd("Shutdown"), nextSeq)
    /\ nextSeq' = nextSeq + 1
    /\ UNCHANGED <<files, pc, exitCode, lastApplied, justSet, printed>>
    /\ UNCHANGED <<daemonVars, ipcVars, runVars, watchVars, cfgFile>>

\* Texts that an editor writes to the config file.
Edits ==
    { [valid |-> TRUE, interval |-> {60}, shuffle |-> {}],
      [valid |-> TRUE, interval |-> {}, shuffle |-> {FALSE}],
      [valid |-> FALSE, interval |-> {}, shuffle |-> {}] }

\* The watcher thread is there to receive events.
WatcherAlive == watch \in {"armed", "sleeping"}

\* The events of one change of the watched file, as the backend delivers
\* them to the thread.
Delivered(q, evs) == IF watched /\ WatcherAlive THEN q \o evs ELSE q

\* The config file is changed in place.
ConfigModified(text) ==
    /\ cfgFile.exists
    /\ cfgFile.text # text
    /\ budget.events > 0
    /\ budget' = [budget EXCEPT !.events = @ - 1]
    /\ cfgFile' = [exists |-> TRUE, text |-> text]
    /\ wq' = Delivered(wq, <<"modify">>)
    /\ UNCHANGED <<files, pc, exitCode, chan, nextSeq, lastApplied, justSet,
                   printed, watch, watched>>
    /\ UNCHANGED <<daemonVars, ipcVars, runVars>>

\* How the backend reports the removal of the watched file: as a remove
\* event, which an event for the changed link count may precede.
RemovalEvents == {<<"remove">>, <<"modify", "remove">>}

\* The config file is removed; the kernel drops the watch with the file.
ConfigRemoved ==
    /\ cfgFile.exists
    /\ budget.removes > 0
    /\ budget' = [budget EXCEPT !.removes = @ - 1]
    /\ cfgFile' = [exists |-> FALSE, text |-> EmptyText]
    /\ \E evs \in RemovalEvents : wq' = Delivered(wq, evs)
    /\ watched' = FALSE
    /\ UNCHANGED <<files, pc, exitCode, chan, nextSeq, lastApplied, justSet,
                   printed, watch>>
    /\ UNCHANGED <<daemonVars, ipcVars, runVars>>

\* A new file is written at the config path; nothing watches it yet.
ConfigWritten(text) ==
    /\ ~cfgFile.exists
    /\ cfgFile' = [exists |-> TRUE, text |-> text]
    /\ UNCHANGED <<files, pc, exitCode, chan, nextSeq, lastApplied, justSet,
                   printed, budget>>
    /\ UNCHANGED <<daemonVars, ipcVars, runVars, watchVars>>

\* The watcher thread takes one event: Reload is sent for a modify or remove
\* event, and after a remove event the thread sleeps before it re-arms.
WatchEvent ==
    /\ SourcesUp
    /\ watch = "armed"
    /\ wq # <<>>
    /\ wq' = Tail(wq)
    /\ IF Head(wq) \in {"modify", "remove"}
       THEN chan' = Send(chan, Cmd("Reload"), nextSeq) /\ nextSeq' = nextSeq + 1
       ELSE UNCHANGED <<chan, nextSeq>>
    /\ watch' = IF Head(wq) = "remove" THEN "sleeping" ELSE watch
    /\ UNCHANGED <<files, pc, exitCode, lastApplied, justSet, printed, budget,
                   watched, cfgFile>>
    /\ UNCHANGED <<daemonVars, ipcVars, runVars>>

\* The watcher thread after its sleep: watch the path again; if no file is
\* there, watch() fails and `?` ends the thread.
WatchRearm ==
    /\ SourcesUp
    /\ watch = "sleeping"
    /\ IF cfgFile.exists
       THEN watch' = "armed" /\ watched' = TRUE /\ UNCHANGED wq
       ELSE watch' = "dead" /\ wq' = <<>> /\ UNCHANGED watched
    /\ UNCHANGED <<files, pc, exitCode, chan, nextSeq, lastApplied, justSet,
                   printed, budget, cfgFile>>
    /\ UNCHANGED <<daemonVars, ipcVars, runVars>>

\* Category names a user passes to the CLI: short ones and one whose
\* encoding does not fit a u16 length.
Categories == {<<(<<108, 1>>)>>, <<(<<108, 2>>)>>, <<(<<108, U16>>)>>}

CliCommands ==
    {Cmd(t) : t \in Tags \ {"Categorise"}} \cup {Categorise(c) : c \in Categories}

\* The commands that reach the control loop, with one category.
LoopCommands ==
    {Cmd(t) : t \in Tags \ {"Categorise", "Config"}}
        \cup {Categorise(<<(<<108, 1>>)>>)}

\* walrus-cli main: Config is printed locally; every other command goes to
\* ipc::send_command, that is IpcClient::send: connect, then write the frame.
\* A CLI that hands every command to the transport.
CliLocal_never(c) == FALSE

\* The arm of the CLI's match that prints the config instead of sending.
CliLocal(c) == c.tag = "Config"

Cli(c) ==
    /\ budget.events > 0
    /\ budget' = [budget EXCEPT !.events = @ - 1]
    /\ IF CliLocal(c)
       THEN printed' = TRUE /\ UNCHANGED conns
       ELSE /\ Connects
            /\ conns' = Append(conns, Conn(FrameOf(c), TRUE, c))
            /\ UNCHANGED printed
    /\ UNCHANGED <<files, pc, exitCode, chan, nextSeq, lastApplied, justSet,
                   lockHeld, sockExists, sockOwner, listener, acc, last>>
    /\ UNCHANGED <<daemonVars, runVars, watchVars, cfgFile>>

\* Byte strings that some other client of the socket writes.
RawFrames ==
    { <<>>,
      Bytes(<<1>>),
      Bytes(<<1, 0>>),
      Bytes(<<2, 0, TagByte["Next"]>>),
      Bytes(<<1, 0, TagByte["Next"]>>),
      Bytes(<<1, 0, TagByte["Config"]>>),
      Bytes(<<1, 0, 99>>),
      Bytes(<<3, 0, TagByte["Categorise"], 1, 108>>),
      Bytes(<<3, 0, TagByte["Categorise"], 5, 108>>),
      Bytes(<<3, 0, TagByte["Categorise"], 1, 200>>),
      Bytes(<<1, 0, TagByte["Pause"], 1, 0, TagByte["Shutdown"]>>) }

\* A client that connects, writes some bytes and either closes or stays
\* connected without writing more.
RawClient(bytes, closed) ==
    /\ budget.conns > 0
    /\ budget' = [budget EXCEPT !.conns = @ - 1]
    /\ Connects
    /\ conns' = Append(conns, Conn(BNorm(bytes), closed, NoCmd))
    /\ UNCHANGED <<files, pc, exitCode, chan, nextSeq, lastApplied, justSet,
                   printed, lockHeld, sockExists, sockOwner, listener, acc, last>>
    /\ UNCHANGED <<daemonVars, runVars, watchVars, cfgFile>>

\* A connected client closes its end.
RawClose(k) ==
    /\ k \in 1..Len(conns)
    /\ ~conns[k].closed
    /\ conns' = [conns EXCEPT ![k].closed = TRUE]
    /\ UNCHANGED <<files, pc, exitCode, chan, nextSeq, lastApplied, justSet,
                   printed, budget, lockHeld, sockExists, sockOwner,
                   listener, acc, last>>
    /\ UNCHANGED <<daemonVars, runVars, watchVars, cfgFile>>

\* A wallpaper file is removed from the disk.
FileRemoved(f) ==
    /\ f \in files
    /\ budget.deletes > 0
    /\ budget' = [budget EXCEPT !.deletes = @ - 1]
    /\ files' = files \ {f}
    /\ UNCHANGED <<pc, exitCode, chan, nextSeq, lastApplied, justSet, printed>>
    /\ UNCHANGED <<daemonVars, ipcVars, runVars, watchVars, cfgFile>>

(* ----------------------------- accept loop ----------------------------- *)

\* An accept loop that never breaks.
\* A server that keeps the stream and goes on reading what is left in it.
DropStream_keeps_session(cs) ==
    LET b == Head(cs).bytes
        n == IF BLen(b) < 2 THEN BLen(b) ELSE 2 + LeValue(b, 2)
    IN  IF BLen(b) > n
        THEN <<[Head(cs) EXCEPT !.bytes = BNorm(BDrop(b, n))]>> \o Tail(cs)
        ELSE Tail(cs)

\* The stream of the connection is dropped at the end of the iteration,
\* with whatever the client wrote after the first frame.
DropStream(cs) == Tail(cs)

AcceptFlow_never_breaks(r) == "accepting"

\* What the accept loop does after parse_stream returned r.
AcceptFlow(r) == IF r.brk THEN "exited" ELSE "accepting"

\* One turn of the accept loop: take the oldest connection, parse_stream it,
\* forward what it decoded, drop the stream, and break or go on.
Accept ==
    /\ acc = "accepting"
    /\ conns # <<>>
    /\ ~ReadBlocks(Head(conns))
    /\ last' = Head(conns)
    /\ LET r == parse_stream(Head(conns).bytes) IN
       /\ IF r.fwd # NoCmd
          THEN chan' = Send(chan, r.fwd, nextSeq) /\ nextSeq' = nextSeq + 1
          ELSE UNCHANGED <<chan, nextSeq>>
       /\ acc' = AcceptFlow(r)
       /\ IF acc' = "exited"
          THEN listener' = [listener EXCEPT ![1] = FALSE] /\ conns' = <<>>
          ELSE UNCHANGED listener /\ conns' = DropStream(conns)
    /\ UNCHANGED <<files, pc, exitCode, lastApplied, justSet, printed, budget,
                   lockHeld, sockExists, sockOwner>>
    /\ UNCHANGED <<daemonVars, runVars, watchVars, cfgFile>>

\* Commands that a caller of Daemon::run sends through its own Sender.
CallerCommands == {Cmd("Next"), Cmd("Previous"), Cmd("Pause"), Cmd("Resume")}

\* A caller of Daemon::run sends a command through the Sender it holds.
CallerSend(c) ==
    /\ connected
    /\ budget.events > 0
    /\ budget' = [budget EXCEPT !.events = @ - 1]
    /\ chan' = Send(chan, c, nextSeq)
    /\ nextSeq' = nextSeq + 1
    /\ UNCHANGED <<files, pc, exitCode, lastApplied, justSet, printed>>
    /\ UNCHANGED <<daemonVars, ipcVars, runVars, watchVars, cfgFile>>

\* The caller drops its Sender, the last one of the channel.
CallerDrop ==
    /\ connected
    /\ connected' = FALSE
    /\ UNCHANGED <<files, pc, exitCode, chan, nextSeq, lastApplied, justSet,
                   printed, budget, wait, hist, elapsed, idle, swww>>
    /\ UNCHANGED <<daemonVars, ipcVars, watchVars, cfgFile>>

\* Queue::sort applied to the queue as it stands.
QueueSort ==
    /\ LET r == Queue_sort(queue, index) IN
       queue' = r.queue /\ index' = r.index
    /\ UNCHANGED <<files, config, paused, links, pc, exitCode, chan, nextSeq,
                   lastApplied, justSet, printed, budget, cfgFile>>
    /\ UNCHANGED <<ipcVars, watchVars, runVars>>

\* Queue::shuffle applied to the queue as it stands.
QueueShuffle ==
    /\ \E r \in Queue_shuffle(queue) :
         queue' = r.queue /\ index' = r.index
    /\ UNCHANGED <<files, config, paused, links, pc, exitCode, chan, nextSeq,
                   lastApplied, justSet, printed, budget, cfgFile>>
    /\ UNCHANGED <<ipcVars, watchVars, runVars>>

\* The daemon is started again after it has ended: main begins anew with the
\* wallpapers, the links and the config file that are on the disk.  The model
\* walks no tree that holds a link to a link.
Restart ==
    /\ pc[1] = "exited"
    /\ \A l \in links : l[2] \in Paths
    /\ pc' = [pc EXCEPT ![1] = "start"]
    /\ exitCode' = [exitCode EXCEPT ![1] = -1]
    /\ config' = Config_new(cfgFile)
    /\ paused' = FALSE
    /\ queue' = <<>>
    /\ index' = 0
    /\ chan' = <<>>
    /\ nextSeq' = 1
    /\ lastApplied' = 0
    /\ justSet' = NoPath
    /\ last' = NoConn
    /\ wait' = 0
    /\ elapsed' = 0
    /\ idle' = 0
    /\ swww' = swww
    /\ hist' = <<>>
    /\ UNCHANGED <<files, links, printed, budget, cfgFile, connected,
                   lockHeld, sockExists, sockOwner, listener, acc, conns>>
    /\ UNCHANGED watchVars

\* The commands of a user who files wallpapers under categories: the two
\* reserved names, another name and the empty name.
MarkCommands ==
    {Categorise(c) : c \in {Like, Dislike, <<(<<108, 1>>)>>, <<>>}}
        \cup {Cmd("Next"), Cmd("Shutdown")}

(* --------------------------- specifications --------------------------- *)

\* The state when the daemon binary is started: nothing built, no lock held.
InitCommon ==
    /\ paused = FALSE
    /\ queue = <<>>
    /\ index = 0
    /\ links = {}
    /\ pc = [p \in Procs |-> "start"]
    /\ exitCode = [p \in Procs |-> -1]
    /\ chan = <<>>
    /\ nextSeq = 1
    /\ lastApplied = 0
    /\ justSet = NoPath
    /\ lockHeld = {}
    /\ listener = [p \in Procs |-> FALSE]
    /\ acc = "none"
    /\ conns = <<>>
    /\ last = NoConn
    /\ printed = FALSE
    /\ watch = "none"
    /\ wq = <<>>
    /\ watched = FALSE
    /\ wait = 0
    /\ elapsed = 0
    /\ idle = 0
    /\ swww = NoTransition
    /\ hist = <<>>
    /\ connected = TRUE

\* The control loop with its queue: CLI clients, the watcher and the
\* interrupt handler send commands while wallpaper files disappear.
InitLoop ==
    /\ InitCommon
    /\ files = Paths
    /\ config \in {c \in Configs : c.interval = DefaultConfig.interval}
    /\ cfgFile = [exists |-> TRUE, text |-> TextOf(config)]
    /\ sockExists = FALSE
    /\ sockOwner = 0
    /\ budget = [events |-> MaxEvents, conns |-> 0, deletes |-> MaxDeletes,
                 removes |-> 0, faults |-> 0, trail |-> 0]

NextLoop ==
    \/ DaemonNew
    \/ IpcServer_new(1)
    \/ IpcServer_start(1)
    \/ RunStart
    \/ MainReturn
    \/ Dispatch
    \/ Timeout
    \/ Interrupt
    \/ \E t \in Edits : ConfigModified(t)
    \/ WatchEvent
    \/ \E c \in LoopCommands : Cli(c)
    \/ \E f \in Paths : FileRemoved(f)
    \/ Accept

SpecLoop == InitLoop /\ [][NextLoop]_vars

\* The transport: CLI clients and clients that write raw bytes connect to
\* the socket of a daemon whose wallpaper files stay in place.
InitIpc ==
    /\ InitCommon
    /\ files = {1}
    /\ config = [interval |-> DefaultConfig.interval, shuffle |-> FALSE]
    /\ cfgFile = [exists |-> TRUE, text |-> TextOf(config)]
    /\ sockExists = FALSE
    /\ sockOwner = 0
    /\ budget = [events |-> MaxSends, conns |-> MaxConns, deletes |-> 0,
                 removes |-> 0, faults |-> 0, trail |-> 0]

NextIpc ==
    \/ DaemonNew
    \/ IpcServer_new(1)
    \/ IpcServer_start(1)
    \/ RunStart
    \/ MainReturn
    \/ Dispatch
    \/ Timeout
    \/ \E c \in CliCommands : Cli(c)
    \/ \E b \in RawFrames, closed \in BOOLEAN : RawClient(b, closed)
    \/ \E k \in 1..(MaxBacklog + MaxConns + MaxSends) : RawClose(k)
    \/ Accept

SpecIpc == InitIpc /\ [][NextIpc]_vars

\* Events that may reach the daemon while two instances race for the lock.
MaxRaceEvents == 2

\* Two instances are started against the same runtime directory, in which a
\* socket file of an earlier run may have been left behind.
InitRace ==
    /\ InitCommon
    /\ files = {1}
    /\ config = [interval |-> DefaultConfig.interval, shuffle |-> FALSE]
    /\ cfgFile = [exists |-> TRUE, text |-> TextOf(config)]
    /\ sockExists \in BOOLEAN
    /\ sockOwner = 0
    /\ budget = [events |-> MaxRaceEvents, conns |-> 0, deletes |-> 0,
                 removes |-> 0, faults |-> 0, trail |-> 0]

NextRace ==
    \/ DaemonNew
    \/ OtherInstanceMain
    \/ \E p \in Procs : IpcServer_new(p)
    \/ \E p \in Procs : IpcServer_start(p)
    \/ RunStart
    \/ MainReturn
    \/ OtherInstanceExit
    \/ Dispatch
    \/ Timeout
    \/ Interrupt
    \/ \E c \in {Cmd("Next"), Cmd("Shutdown")} : Cli(c)
    \/ Accept

SpecRace == InitRace /\ [][NextRace]_vars

\* The queue under Next and Previous: CLI clients send only these two, every
\* advance is remembered, and every wallpaper file may disappear.
InitQueue ==
    /\ InitCommon
    /\ files = Paths
    /\ config \in {c \in Configs : c.interval = DefaultConfig.interval}
    /\ cfgFile = [exists |-> TRUE, text |-> TextOf(config)]
    /\ sockExists = FALSE
    /\ sockOwner = 0
    /\ budget = [events |-> MaxTrail, conns |-> 0, deletes |-> MaxPaths,
                 removes |-> 0, faults |-> 0, trail |-> MaxTrail]

NextQueue ==
    \/ DaemonNew
    \/ IpcServer_new(1)
    \/ IpcServer_start(1)
    \/ RunStart
    \/ MainReturn
    \/ Dispatch
    \/ Timeout
    \/ \E c \in {Cmd("Next"), Cmd("Previous")} : Cli(c)
    \/ \E f \in Paths : FileRemoved(f)
    \/ Accept

SpecQueue == InitQueue /\ [][NextQueue]_vars

\* The life of one instance from start to exit: the queue may be empty at
\* start-up, a socket file may have been left behind, the start of the server
\* may fail, and the daemon is stopped by an interrupt or by a client.
InitLife ==
    /\ InitCommon
    /\ files \in {{}, {1}, {1, 2}}
    /\ config = [interval |-> DefaultConfig.interval, shuffle |-> FALSE]
    /\ cfgFile = [exists |-> TRUE, text |-> TextOf(config)]
    /\ sockExists \in BOOLEAN
    /\ sockOwner = 0
    /\ budget = [events |-> MaxRaceEvents, conns |-> 0, deletes |-> 0,
                 removes |-> 0, faults |-> MaxFaults, trail |-> 0]

NextLife ==
    \/ DaemonNew
    \/ IpcServer_new(1)
    \/ IpcServer_start(1)
    \/ RunStart
    \/ MainReturn
    \/ Dispatch
    \/ Timeout
    \/ Interrupt
    \/ \E c \in {Cmd("Next"), Cmd("Shutdown")} : Cli(c)
    \/ Accept

SpecLife == InitLife /\ [][NextLife]_vars

\* The same life begun with the socket file of an earlier run, which ended
\* without its cleanup, still at the socket path.
InitStale == InitLife /\ sockExists

SpecStale == InitStale /\ [][NextLife]_vars

\* The daemon and its clients with every step of the program taken when it
\* stays possible: the start-up, the accept loop and the control loop go on;
\* clients come, write and close as they please.
NextStall ==
    \/ DaemonNew
    \/ IpcServer_new(1)
    \/ IpcServer_start(1)
    \/ RunStart
    \/ MainReturn
    \/ Dispatch
    \/ Timeout
    \/ \E c \in {Cmd("Next"), Cmd("Shutdown")} : Cli(c)
    \/ \E b \in RawFrames, closed \in BOOLEAN : RawClient(b, closed)
    \/ \E k \in 1..(MaxBacklog + MaxConns + MaxSends) : RawClose(k)
    \/ Accept

SpecStall ==
    /\ InitIpc
    /\ [][NextStall]_vars
    /\ WF_vars(DaemonNew)
    /\ WF_vars(IpcServer_new(1))
    /\ WF_vars(IpcServer_start(1))
    /\ WF_vars(RunStart)
    /\ WF_vars(Accept)
    /\ WF_vars(Dispatch)
    /\ WF_vars(Timeout)
    /\ WF_vars(MainReturn)

\* The daemon with its config file edited, removed and written again while
\* the watcher thread and the control loop run.
InitReload ==
    /\ InitCommon
    /\ files = {1}
    /\ config \in {c \in Configs : c.interval = DefaultConfig.interval}
    /\ cfgFile = [exists |-> TRUE, text |-> TextOf(config)]
    /\ sockExists = FALSE
    /\ sockOwner = 0
    /\ budget = [events |-> MaxEvents, conns |-> 0, deletes |-> 0,
                 removes |-> MaxRemoves, faults |-> 0, trail |-> 0]

NextReload ==
    \/ DaemonNew
    \/ IpcServer_new(1)
    \/ IpcServer_start(1)
    \/ RunStart
    \/ MainReturn
    \/ Dispatch
    \/ Timeout
    \/ Interrupt
    \/ \E t \in Edits : ConfigModified(t)
    \/ ConfigRemoved
    \/ \E t \in Edits : ConfigWritten(t)
    \/ WatchEvent
    \/ WatchRearm

SpecReload == InitReload /\ [][NextReload]_vars

\* Daemon::run called by a caller that built the daemon and the channel
\* itself and holds the only Sender: no IPC server, no watcher, no handler.
InitRun ==
    /\ paused = FALSE
    /\ files = Paths
    /\ queue \in SeqsOf(files)
    /\ index = 0
    /\ links = {}
    /\ config \in {c \in Configs : c.interval = DefaultConfig.interval}
    /\ cfgFile = [exists |-> TRUE, text |-> TextOf(config)]
    /\ pc = [p \in Procs |-> IF p = 1 THEN "serving" ELSE "start"]
    /\ exitCode = [p \in Procs |-> -1]
    /\ chan = <<>>
    /\ nextSeq = 1
    /\ lastApplied = 0
    /\ justSet = NoPath
    /\ lockHeld = {}
    /\ sockExists = FALSE
    /\ sockOwner = 0
    /\ listener = [p \in Procs |-> FALSE]
    /\ acc = "none"
    /\ conns = <<>>
    /\ last = NoConn
    /\ printed = FALSE
    /\ watch = "none"
    /\ wq = <<>>
    /\ watched = FALSE
    /\ wait = 0
    /\ elapsed = 0
    /\ idle = 0
    /\ swww = NoTransition
    /\ hist = <<>>
    /\ connected = TRUE
    /\ budget = [events |-> MaxEvents, conns |-> 0, deletes |-> MaxDeletes,
                 removes |-> 0, faults |-> 0, trail |-> 0]

NextRun ==
    \/ RunStart
    \/ Dispatch
    \/ Timeout
    \/ Disconnected
    \/ \E c \in CallerCommands : CallerSend(c)
    \/ CallerDrop
    \/ \E f \in Paths : FileRemoved(f)

SpecRun == InitRun /\ [][NextRun]_vars

\* The two ordering methods of the queue on every queue and index that the
\* daemon can hold: each entry once, the index on one of them.
InitOrder ==
    /\ paused \in BOOLEAN
    /\ files \in SUBSET Paths \ {{}}
    /\ queue \in SeqsOf(files)
    /\ index \in 0..(Len(queue) - 1)
    /\ links = {}
    /\ config \in {c \in Configs : c.interval = DefaultConfig.interval}
    /\ cfgFile = [exists |-> TRUE, text |-> TextOf(config)]
    /\ pc = [p \in Procs |-> IF p = 1 THEN "loop" ELSE "start"]
    /\ exitCode = [p \in Procs |-> -1]
    /\ chan = <<>>
    /\ nextSeq = 1
    /\ lastApplied = 0
    /\ justSet = NoPath
    /\ lockHeld = {}
    /\ sockExists = FALSE
    /\ sockOwner = 0
    /\ listener = [p \in Procs |-> FALSE]
    /\ acc = "none"
    /\ conns = <<>>
    /\ last = NoConn
    /\ printed = FALSE
    /\ watch = "none"
    /\ wq = <<>>
    /\ watched = FALSE
    /\ wait = config.interval
    /\ elapsed = 0
    /\ idle = 0
    /\ swww = NoTransition
    /\ hist = <<>>
    /\ connected = TRUE
    /\ budget = [events |-> 0, conns |-> 0, deletes |-> 0,
                 removes |-> 0, faults |-> 0, trail |-> 0]

NextOrder == QueueSort \/ QueueShuffle

SpecOrder == InitOrder /\ [][NextOrder]_vars

\* The daemon interrupted at any time after its handler is installed, while
\* clients pause and resume it; every step of the program is taken when it
\* stays possible.
InitSignal ==
    /\ InitCommon
    /\ files = {1, 2}
    /\ config \in {c \in Configs : c.interval = DefaultConfig.interval}
    /\ cfgFile = [exists |-> TRUE, text |-> TextOf(config)]
    /\ sockExists \in BOOLEAN
    /\ sockOwner = 0
    /\ budget = [events |-> MaxRaceEvents, conns |-> 0, deletes |-> 0,
                 removes |-> 0, faults |-> 0, trail |-> 0]

NextSignal ==
    \/ DaemonNew
    \/ IpcServer_new(1)
    \/ IpcServer_start(1)
    \/ RunStart
    \/ MainReturn
    \/ Dispatch
    \/ Timeout
    \/ Interrupt
    \/ \E c \in {Cmd("Pause"), Cmd("Resume"), Cmd("Next")} : Cli(c)
    \/ Accept

SpecSignal ==
    /\ InitSignal
    /\ [][NextSignal]_vars
    /\ WF_vars(DaemonNew)
    /\ WF_vars(IpcServer_new(1))
    /\ WF_vars(IpcServer_start(1))
    /\ WF_vars(RunStart)
    /\ WF_vars(Accept)
    /\ WF_vars(Dispatch)
    /\ WF_vars(Timeout)
    /\ WF_vars(MainReturn)

\* The daemon and the tree below the wallpaper root over several runs:
\* wallpapers are categorised, the daemon is shut down and started again,
\* and a wallpaper may be removed.
InitMarks ==
    /\ InitCommon
    /\ files = {1, 2}
    /\ config = [interval |-> DefaultConfig.interval, shuffle |-> FALSE]
    /\ cfgFile = [exists |-> TRUE, text |-> TextOf(config)]
    /\ sockExists = FALSE
    /\ sockOwner = 0
    /\ budget = [events |-> MaxMarks, conns |-> 0, deletes |-> 1,
                 removes |-> 0, faults |-> 0, trail |-> 0]

NextMarks ==
    \/ DaemonNew
    \/ IpcServer_new(1)
    \/ IpcServer_start(1)
    \/ RunStart
    \/ MainReturn
    \/ Restart
    \/ Dispatch
    \/ Timeout
    \/ \E c \in MarkCommands : Cli(c)
    \/ \E f \in Paths : FileRemoved(f)
    \/ Accept

SpecMarks == InitMarks /\ [][NextMarks]_vars

\* The control loop while the queue drains: every wallpaper file may
\* disappear while CLI clients send any of the commands the loop takes.
InitDrain ==
    /\ InitCommon
    /\ files = {1, 2}
    /\ config = [interval |-> DefaultConfig.interval, shuffle |-> FALSE]
    /\ cfgFile = [exists |-> TRUE, text |-> TextOf(config)]
    /\ sockExists = FALSE
    /\ sockOwner = 0
    /\ budget = [events |-> MaxEvents, conns |-> 0, deletes |-> MaxDeletes,
                 removes |-> 0, faults |-> 0, trail |-> 0]

NextDrain ==
    \/ DaemonNew
    \/ IpcServer_new(1)
    \/ IpcServer_start(1)
    \/ RunStart
    \/ MainReturn
    \/ Dispatch
    \/ Timeout
    \/ \E c \in LoopCommands : Cli(c)
    \/ \E f \in Paths : FileRemoved(f)
    \/ Accept

SpecDrain == InitDrain /\ [][NextDrain]_vars

\* The commands of LoopCommands that do not name a category.
PlainCommands == {Cmd(t) : t \in Tags \ {"Categorise", "Config"}}

\* The draining queue under the commands that need no current wallpaper,
\* with the threads of the daemon scheduled fairly: main, the accept thread
\* and the control loop each take the step they can take.
NextDrained ==
    \/ DaemonNew
    \/ IpcServer_new(1)
    \/ IpcServer_start(1)
    \/ RunStart
    \/ MainReturn
    \/ Dispatch
    \/ Timeout
    \/ \E c \in PlainCommands : Cli(c)
    \/ \E f \in Paths : FileRemoved(f)
    \/ Accept

SpecDrained ==
    /\ InitDrain
    /\ [][NextDrained]_vars
    /\ WF_vars(DaemonNew)
    /\ WF_vars(IpcServer_new(1))
    /\ WF_vars(IpcServer_start(1))
    /\ WF_vars(RunStart)
    /\ WF_vars(Accept)
    /\ WF_vars(Dispatch)
    /\ WF_vars(Timeout)
    /\ WF_vars(MainReturn)

\* The control loop on the clock: time passes in steps of TickLen while
\* CLI clients send any of the commands the loop takes.
InitTimer ==
    /\ InitCommon
    /\ files = {1}
    /\ config \in {c \in Configs : ~c.shuffle}
    /\ cfgFile = [exists |-> TRUE, text |-> TextOf(config)]
    /\ sockExists = FALSE
    /\ sockOwner = 0
    /\ budget = [events |-> MaxEvents, conns |-> 0, deletes |-> 0,
                 removes |-> 0, faults |-> 0, trail |-> 0]

NextTimer ==
    \/ DaemonNew
    \/ IpcServer_new(1)
    \/ IpcServer_start(1)
    \/ RunStart
    \/ MainReturn
    \/ Dispatch
    \/ TimedOut
    \/ Tick
    \/ \E c \in LoopCommands : Cli(c)
    \/ Accept

SpecTimer == InitTimer /\ [][NextTimer]_vars

\* The transitions: the daemon computes one transition after the other, for
\* every configuration, flavour and angle.
InitTransition ==
    /\ InitCommon
    /\ files = {1}
    /\ config = DefaultConfig
    /\ cfgFile = [exists |-> TRUE, text |-> TextOf(config)]
    /\ sockExists = FALSE
    /\ sockOwner = 0
    /\ budget = [events |-> 0, conns |-> 0, deletes |-> 0,
                 removes |-> 0, faults |-> 0, trail |-> 0]

NextTransition == NewTransition

SpecTransition == InitTransition /\ [][NextTransition]_vars

\* The legacy index loop on every queue, every index on one of its entries
\* and every set of files that exist.
InitLegacy ==
    /\ paused = FALSE
    /\ files \in SUBSET Paths
    /\ queue \in UNION {SeqsOf(S) : S \in SUBSET Paths \ {{}}}
    /\ index \in 0..(Len(queue) - 1)
    /\ links = {}
    /\ config = DefaultConfig
    /\ cfgFile = [exists |-> TRUE, text |-> TextOf(config)]
    /\ pc = [p \in Procs |-> IF p = 1 THEN "loop" ELSE "start"]
    /\ exitCode = [p \in Procs |-> -1]
    /\ chan = <<>>
    /\ nextSeq = 1
    /\ lastApplied = 0
    /\ justSet = NoPath
    /\ lockHeld = {}
    /\ sockExists = FALSE
    /\ sockOwner = 0
    /\ listener = [p \in Procs |-> FALSE]
    /\ acc = "none"
    /\ conns = <<>>
    /\ last = NoConn
    /\ printed = FALSE
    /\ watch = "none"
    /\ wq = <<>>
    /\ watched = FALSE
    /\ wait = config.interval
    /\ elapsed = 0
    /\ idle = 0
    /\ swww = NoTransition
    /\ hist = <<>>
    /\ connected = TRUE
    /\ budget = [events |-> 0, conns |-> 0, deletes |-> 0,
                 removes |-> 0, faults |-> 0, trail |-> 0]

NextLegacy == LegacyAdvance(TRUE) \/ LegacyAdvance(FALSE)

SpecLegacy == InitLegacy /\ [][NextLegacy]_vars

(* ------------------- properties of the control loop -------------------- *)

\* A step of the loop that receives and dispatches a command with this tag.
Dispatches(tag) == chan # <<>> /\ Head(chan).cmd.tag = tag /\ Dispatch

\* C1: whenever the queue is not empty, 0 <= index < len, in every state the
\* daemon reaches through shuffle, sort, next, previous and the pruning of
\* entries whose file is gone.
C1_IndexInRange == Len(queue) > 0 => (0 <= index /\ index < Len(queue))

\* C1 witness: in the loop, after a command was dispatched, the queue has lost
\* entries and the index sits on its last entry.
C1_Witness ==
    /\ pc[1] = "loop"
    /\ lastApplied >= 1
    /\ 0 < Len(queue) /\ Len(queue) < MaxPaths
    /\ index = Len(queue) - 1
    /\ \E p \in Paths \ files : TRUE
    /\ Range(queue) \subseteq files

\* C3: commands are dispatched in the order in which they arrived on the
\* channel, whatever source sent them: the commands still waiting carry the
\* arrival numbers that follow the one dispatched last, without a gap, so no
\* command (a Shutdown included) is dispatched before one that arrived
\* earlier.
C3_ArrivalOrder ==
    /\ \A k \in 1..Len(chan) : chan[k].seq = lastApplied + k
    /\ nextSeq = lastApplied + Len(chan) + 1

\* C3 witness: a Next that arrived first has been applied while the Shutdown
\* that arrived behind it still waits.
C3_Witness ==
    /\ pc[1] = "loop"
    /\ lastApplied = 1
    /\ index = 1
    /\ Len(chan) = 1
    /\ chan[1].cmd.tag = "Shutdown"

\* What one advance in the given direction must leave behind: the wallpaper
\* set is the entry at the new position (none when the queue has none), and
\* when the file of the neighbouring entry exists, the queue is untouched, the
\* index moved by one with wraparound and that entry was set.
Rotated(forward) ==
    LET n == Len(queue)
        j == IF n = 0 THEN index
             ELSE IF forward THEN (index + 1) % n ELSE (index + n - 1) % n
    IN  /\ justSet' = get_current(queue', index')
        /\ (n > 0 /\ queue[j + 1] \in files) =>
               (queue' = queue /\ index' = j /\ justSet' = queue[j + 1])

\* C4: a timeout while paused leaves queue and index alone and sets no
\* wallpaper; a timeout while not paused advances once forward and sets the
\* wallpaper at the new position; Next and Previous do their advance and set
\* the wallpaper whether or not the daemon is paused.
C4_PauseOnlyStopsTimer ==
    [][ /\ (Timeout /\ paused) => (UNCHANGED <<queue, index>> /\ justSet' = NoPath)
        /\ (Timeout /\ ~paused) => Rotated(TRUE)
        /\ Dispatches("Next") => Rotated(TRUE)
        /\ Dispatches("Previous") => Rotated(FALSE) ]_vars

\* C4 witness: the daemon is paused, two commands were dispatched and the
\* last step of the loop set a wallpaper.
C4_Witness ==
    /\ pc[1] = "loop"
    /\ paused
    /\ lastApplied = 2
    /\ justSet # NoPath

\* C5: once the loop has dispatched Shutdown it never runs again: nothing is
\* dispatched and queue, index, paused flag, config and links stay as they
\* are, also with commands still waiting in the channel.
C5_TerminatedIsTerminal ==
    [][ pc[1] \in {"terminated", "exited"} =>
          /\ pc'[1] \in {"terminated", "exited"}
          /\ UNCHANGED <<queue, index, paused, config, links, lastApplied>> ]_vars

\* C5 witness: the loop has stopped with a command still in the channel.
C5_Witness == pc[1] = "terminated" /\ chan # <<>>

\* The nearest entry whose file exists, counted from the current position in
\* the given direction, with wraparound.
Nearest(forward) ==
    LET n      == Len(queue)
        pos(k) == IF forward THEN (index + k) % n ELSE (index + n - k) % n
        k0     == CHOOSE k \in 1..n :
                    /\ queue[pos(k) + 1] \in files
                    /\ \A m \in 1..(k - 1) : queue[pos(m) + 1] \notin files
    IN  queue[pos(k0) + 1]

\* An advance in this direction meets an entry whose file is gone, while the
\* file of some entry exists.
MeetsStale(forward) ==
    /\ queue # <<>>
    /\ index < Len(queue)
    /\ Range(queue) \cap files # {}
    /\ LET n == Len(queue) IN
       queue[(IF forward THEN (index + 1) % n ELSE (index + n - 1) % n) + 1]
           \notin files

\* C10: when an advance meets an entry whose file is gone, the wallpaper
\* selected after Next or a timeout is the nearest entry after the old
\* position whose file exists, and after Previous the nearest such entry
\* before the old position, with wraparound.
C10_NearestExisting ==
    [][ /\ ((Dispatches("Next") \/ (Timeout /\ ~paused)) /\ MeetsStale(TRUE))
             => justSet' = Nearest(TRUE)
        /\ (Dispatches("Previous") /\ MeetsStale(FALSE))
             => justSet' = Nearest(FALSE) ]_vars

(* --------------------- properties of the transport --------------------- *)

\* C2: at no time do two processes hold the lock; a listener is bound only
\* by the process that holds it; a process that lost the race has exited
\* with status 1 without a listener, a socket or the lock; and when both
\* instances have tried while neither has ended its run, exactly one of them
\* holds the lock and the other has exited with status 1.
C2_SingleServer ==
    /\ Cardinality(lockHeld) <= 1
    /\ \A p \in Procs : listener[p] => p \in lockHeld
    /\ sockOwner # 0 => sockOwner \in lockHeld
    /\ \A p \in Procs :
         exitCode[p] = 1 => (~listener[p] /\ sockOwner # p /\ p \notin lockHeld)
    /\ ((\A p \in Procs : pc[p] \notin {"start", "built"} /\ exitCode[p] \in {-1, 1})
          => \E p \in Procs :
               /\ exitCode[p] = 1
               /\ lockHeld = Procs \ {p}
               /\ \A q \in Procs \ {p} : exitCode[q] = -1)

\* C2 witness: one instance serves with the lock held and the socket bound,
\* the other has exited with status 1.
C2_Witness ==
    \E p \in Procs :
        /\ exitCode[p] = 1
        /\ lockHeld = Procs \ {p}
        /\ \A q \in Procs \ {p} : listener[q] /\ sockOwner = q

\* C6: for every command other than Config that a CLI client sends, the
\* accept loop forwards to the channel a command equal to the one sent.
C6_RoundTrip ==
    [][ (Accept /\ Head(conns).sent \in CliCommands \ {Cmd("Config")})
          => chan' = Send(chan, Head(conns).sent, nextSeq) ]_vars

\* C7: the accept loop exits when it has forwarded a Shutdown and only then;
\* after forwarding any other command it keeps accepting with the listener
\* open; and the frame of each of Next, Previous, Pause, Resume, Reload and
\* Shutdown, and of a Categorise that fits the length prefix, is forwarded.
C7_AcceptLoopExit ==
    [][ Accept =>
          /\ Len(chan') > Len(chan) =>
               LET c == chan'[Len(chan')].cmd IN
               /\ c.tag = "Shutdown" => (acc' = "exited" /\ ~listener'[1])
               /\ c.tag # "Shutdown" => (acc' = "accepting" /\ listener'[1])
          /\ Len(chan') = Len(chan) => acc' = "accepting"
          /\ \A c \in CliCommands \ {Cmd("Config")} :
               (Head(conns).bytes = FrameOf(c) /\ BLen(to_bytes(c)) < U16)
                 => chan' = Send(chan, c, nextSeq) ]_vars

\* C7 witness: the accept loop forwarded two commands and then exited: it
\* kept accepting after the first and broke on the second, a Shutdown.
C7_Witness == acc = "exited" /\ nextSeq = 3

\* A frame that parse_stream cannot turn into a command: a missing or short
\* length prefix, fewer payload bytes than announced, or a payload that does
\* not decode.
Malformed(b) ==
    \/ BLen(b) < 2
    \/ BLen(b) < 2 + LeValue(b, 2)
    \/ from_bytes(BTake(BDrop(b, 2), LeValue(b, 2))) = NoCmd

\* C8: a connection with a malformed frame forwards nothing, changes nothing
\* in the daemon and leaves the accept loop accepting with the listener open,
\* the next connection at the head of its queue.
C8_MalformedIsSkipped ==
    [][ (Accept /\ Malformed(Head(conns).bytes)) =>
          /\ chan' = chan /\ nextSeq' = nextSeq
          /\ acc' = "accepting" /\ listener'[1]
          /\ conns' = Tail(conns)
          /\ UNCHANGED <<daemonVars, pc, justSet, lastApplied>> ]_vars

\* C8 witness: a raw connection was taken and forwarded nothing, and the
\* Resume of the CLI client that came after it is the only command in the
\* channel.
C8_Witness ==
    /\ acc = "accepting"
    /\ budget.conns = 0
    /\ conns = <<>>
    /\ last.sent = Cmd("Resume")
    /\ chan = <<[cmd |-> Cmd("Resume"), seq |-> 1]>>

Advances == Dispatches("Next") \/ Dispatches("Previous") \/ (Timeout /\ ~paused)

\* C11: an advance leaves the queue empty only if it was empty before or no
\* entry's file exists; if the file of at least one entry exists, the queue
\* is not empty after the advance and the wallpaper handed to the setter is
\* the current entry, whose file exists.
C11_EmptyOnlyWhenExhausted ==
    [][ Advances =>
          /\ queue' = <<>> => (queue = <<>> \/ Range(queue) \cap files = {})
          /\ Range(queue) \cap files # {} =>
               /\ queue' # <<>>
               /\ justSet' = get_current(queue', index')
               /\ justSet' \in files ]_vars

\* C11 witness: a first advance removed stale entries from the full queue and
\* left entries in it, and a later advance, with no file left, emptied it.
C11_Witness ==
    /\ pc[1] = "loop"
    /\ queue = <<>>
    /\ justSet = NoPath
    /\ Len(hist) >= 2
    /\ hist[1].len = MaxPaths /\ hist[1].pruned
    /\ hist[2].pruned


\* C12: with no stale entry in the queue an advance removes nothing, moves
\* forward from the last index to 0 and otherwise up by one, and backward
\* from index 0 to len-1 and otherwise down by one; three advances forward
\* from index 0 of a queue of three visit the indices 1, 2, 0 in that order.
C12_Wraparound ==
    /\ \A k \in 1..Len(hist) :
         (hist[k].clean /\ hist[k].len > 0) =>
            /\ ~hist[k].pruned
            /\ hist[k].forward =>
                 hist[k].to = (IF hist[k].from = hist[k].len - 1 THEN 0
                               ELSE hist[k].from + 1)
            /\ ~hist[k].forward =>
                 hist[k].to = (IF hist[k].from = 0 THEN hist[k].len - 1
                               ELSE hist[k].from - 1)
    /\ (/\ Len(hist) >= 3
        /\ \A k \in 1..3 : hist[k].forward /\ hist[k].clean /\ hist[k].len = 3
        /\ hist[1].from = 0)
         => <<hist[1].to, hist[2].to, hist[3].to>> = <<1, 2, 0>>

\* C12 witness: three advances forward over a queue of three entries whose
\* files all exist, begun at index 0 and ended there, and then an advance
\* backward that wrapped to the last index.
C12_Witness ==
    /\ Len(hist) >= 3
    /\ \A k \in 1..3 : hist[k].forward /\ hist[k].clean /\ hist[k].len = 3
    /\ hist[1].from = 0
    /\ hist[3].to = 0
    /\ pc[1] = "loop"
    /\ index = 2
    /\ ~paused
    /\ chan = <<>>

\* C13: an advance forward followed by an advance backward, or backward
\* followed by forward, neither of which removed an entry, ends at the index
\* the first one started from, over a queue of the same length.
C13_ThereAndBack ==
    \A k \in 1..(Len(hist) - 1) :
        (/\ hist[k].forward # hist[k + 1].forward
         /\ ~hist[k].pruned /\ ~hist[k + 1].pruned
         /\ hist[k].len > 0)
          => /\ hist[k + 1].to = hist[k].from
             /\ hist[k + 1].len = hist[k].len
             /\ hist[k + 1].from = hist[k].to

\* C13 witness: a step backward from index 0 wrapped to the last index and
\* the step forward after it returned to index 0, nothing removed.
C13_Witness ==
    /\ Len(hist) >= 2
    /\ ~hist[1].forward /\ hist[2].forward
    /\ ~hist[1].pruned /\ ~hist[2].pruned
    /\ hist[1].len = MaxPaths
    /\ hist[1].from = 0
    /\ hist[1].to = MaxPaths - 1
    /\ hist[2].to = 0


(* ------------------ properties of the server's life -------------------- *)

\* The server endpoint of process 1 exists: the lock is held and the guard
\* is registered.
HasServer == pc[1] \in {"locked", "serving", "loop", "terminated",
                        "panicked", "unreachable"}

\* C14: whenever process 1 ends by returning from main or by unwinding while
\* its server endpoint exists (after the loop stopped on a Shutdown from any
\* source, or when the start of the server panics), the socket path does not
\* exist afterwards, no listener is open and the lock is released.
C14_GuardUnlinksSocket ==
    [][ (HasServer /\ pc'[1] = "exited" /\ exitCode'[1] \in {0, 101}) =>
          /\ ~sockExists'
          /\ sockOwner' = 0
          /\ ~listener'[1]
          /\ 1 \notin lockHeld' ]_vars

\* C14 witness: the daemon served, dispatched a Shutdown that came over the
\* socket, and main returned: no socket file, no lock.
C14_Witness ==
    /\ pc[1] = "exited"
    /\ exitCode[1] = 0
    /\ last.sent = Cmd("Shutdown")
    /\ lastApplied >= 1
    /\ ~sockExists
    /\ lockHeld = {}

C18_EmptyQueueExits ==
    files = {} =>
        /\ pc[1] \in {"start", "exited"}
        /\ pc[1] = "exited" => exitCode[1] = 0
        /\ lockHeld = {}
        /\ sockOwner = 0
        /\ ~listener[1]
        /\ acc = "none"
        /\ watch = "none"
        /\ chan = <<>>
        /\ justSet = NoPath
        /\ wait = 0

\* C18 witness: the daemon found no wallpaper and has exited, a socket file
\* of an earlier run still in place.
C18_Witness ==
    /\ files = {}
    /\ pc[1] = "exited"
    /\ exitCode[1] = 0
    /\ queue = <<>>
    /\ sockExists


\* A client's Shutdown waits in the listener's backlog or in the channel.
ShutdownSent ==
    \E k \in 1..Len(conns) : conns[k].sent = Cmd("Shutdown")

\* C16: a Shutdown that a client has sent over the socket is eventually
\* observed, that is the control loop stops, whatever other clients have
\* connected before it and however little they wrote.
C16_ShutdownObserved ==
    ShutdownSent ~> (pc[1] \in {"terminated", "exited"})


(* --------------------- properties of the config ------------------------ *)

\* What Reload finds at the config path: the text of the file, or the empty
\* text of the file that is created when there is none.
FoundText == IF cfgFile.exists THEN cfgFile.text ELSE EmptyText

\* C17: whenever the loop waits, the timeout of the wait is the interval of
\* the current snapshot; a dispatched Reload replaces the snapshot by what
\* the file says, with the default for every key the file leaves out and the
\* default config when the text does not parse, whatever the old snapshot
\* held.
C17_WaitFollowsSnapshot ==
    /\ [](pc[1] = "loop" => wait = config.interval)
    /\ [][ Dispatches("Reload") =>
             /\ config' = from_raw(FoundText)
             /\ ~FoundText.valid => config' = DefaultConfig
             /\ FoundText.interval = {} =>
                    config'.interval = DefaultConfig.interval
             /\ FoundText.shuffle = {} =>
                    config'.shuffle = DefaultConfig.shuffle
             /\ wait' = config'.interval ]_vars

\* C17 witness: the daemon began with the default interval, a Reload brought
\* a snapshot with another interval, and the loop now waits that long.
C17_Witness ==
    /\ pc[1] = "loop"
    /\ lastApplied >= 1
    /\ config.interval # DefaultConfig.interval
    /\ wait = config.interval
    /\ cfgFile.text.interval = {config.interval}

\* C20: once the config file has been removed and is there again, the
\* watcher has reported the removal, has handled every event and watches
\* again, and nothing else was sent to the channel, exactly one Reload was
\* sent.
C20_OneReloadPerReplacement ==
    ( /\ budget.removes = MaxRemoves - 1
      /\ budget.events = MaxEvents
      /\ nextSeq > 1
      /\ cfgFile.exists
      /\ watch = "armed"
      /\ watched
      /\ wq = <<>> )
    => nextSeq = 2


(* ----------------- properties of a disconnected channel ---------------- *)

\* One iteration of the loop, whatever recv_timeout returned.
LoopStep == Dispatch \/ Timeout \/ Disconnected

\* C19: an iteration of the loop that finds the channel empty with every
\* Sender dropped ends the loop: the daemon is terminated, and its config,
\* pause flag, queue, index and links are what they were; no command is
\* applied and no wallpaper is set.
C19_DisconnectStops ==
    [][ (LoopStep /\ chan = <<>> /\ ~connected) =>
          /\ pc'[1] = "terminated"
          /\ UNCHANGED daemonVars
          /\ lastApplied' = lastApplied
          /\ justSet' = NoPath
          /\ hist' = hist ]_vars

\* C19 witness: the caller sent commands, which were applied, and dropped its
\* Sender; the loop has stopped although no Shutdown was ever sent.
C19_Witness ==
    /\ pc[1] = "terminated"
    /\ ~connected
    /\ chan = <<>>
    /\ lastApplied >= 1
    /\ lastApplied = nextSeq - 1


(* ------------------- more properties of the transport ------------------ *)

\* C27: in the bytes that a CLI client wrote for a command, the 2-byte
\* little-endian prefix is the number of bytes that follow it, and the bytes
\* that the prefix makes the server read are the payload of the command.
C27_PrefixIsPayloadLength ==
    \A k \in 1..Len(conns) :
        conns[k].sent \in CliCommands =>
            LET b == conns[k].bytes IN
            /\ LeValue(b, 2) = BLen(b) - 2
            /\ BNorm(BTake(BDrop(b, 2), LeValue(b, 2))) = to_bytes(conns[k].sent)


\* The connections made so far: those of the CLI and those of other clients.
Connected ==
    (MaxSends - budget.events - (IF printed THEN 1 ELSE 0))
        + (MaxConns - budget.conns)

\* The bytes of a client that wrote two frames, Pause and then Shutdown.
TwoFrames == BNorm(Bytes(<<1, 0, TagByte["Pause"], 1, 0, TagByte["Shutdown"]>>))

\* C28: one turn of the accept loop forwards at most one command, the one
\* that the first frame of the connection decodes to, and is done with the
\* connection, whatever else the client wrote; so the commands on the
\* channel never outnumber the connections taken.
C28_OneCommandPerConnection ==
    /\ [](nextSeq - 1 + Len(conns) <= Connected)
    /\ [][ Accept =>
             /\ Len(chan') <= Len(chan) + 1
             /\ Len(conns') < Len(conns)
             /\ \A k \in 1..Len(conns') : conns'[k] \in Range(Tail(conns))
             /\ Head(conns).bytes = TwoFrames =>
                  /\ chan' = Send(chan, Cmd("Pause"), nextSeq)
                  /\ acc' = "accepting" ]_vars

\* C28 witness: the client that wrote a Pause frame and a Shutdown frame was
\* served: Pause alone is on the channel and the accept loop goes on.
C28_Witness ==
    /\ last.bytes = TwoFrames
    /\ conns = <<>>
    /\ chan = <<[cmd |-> Cmd("Pause"), seq |-> 1]>>
    /\ acc = "accepting"


(* ------------------- properties of the queue's order ------------------- *)

\* The entries of q ascend.
Ascending(q) == \A k \in 1..(Len(q) - 1) : q[k] <= q[k + 1]

C30_StaleSocketReplaced ==
    /\ [][ (IpcServer_start(1) /\ sockExists /\ sockOwner = 0
              /\ budget' = budget) =>
             /\ pc'[1] = "serving"
             /\ sockExists' /\ sockOwner' = 1
             /\ listener'[1] /\ acc' = "accepting" ]_vars
    /\ [][ (sockExists /\ (~sockExists' \/ sockOwner' # sockOwner)) =>
             \E p \in lockHeld : pc[p] \in {"locked", "terminated",
                                            "panicked", "unreachable"} ]_vars
    /\ [](pc[1] \in {"start", "built"} => (sockExists /\ sockOwner = 0))

\* C30 witness: the daemon that found the socket file of an earlier run runs
\* its loop with its own listener bound at the path and has dispatched a
\* command.
C30_Witness ==
    /\ pc[1] = "loop"
    /\ lockHeld = {1}
    /\ sockExists /\ sockOwner = 1
    /\ listener[1]
    /\ lastApplied >= 1


(* --------------------- properties of the watcher ----------------------- *)

\* C21: as long as the daemon runs, the watcher thread that main started
\* runs too, armed or waiting to re-arm: a re-arm that finds no config file
\* does not end it.
C21_RearmFailureRecovers ==
    pc[1] \in {"built", "locked", "serving", "loop"}
        => watch \in {"armed", "sleeping"}


(* ---------------------- properties of the interrupt --------------------- *)

\* A Shutdown waits in the channel.
ShutdownQueued == \E k \in 1..Len(chan) : chan[k].cmd.tag = "Shutdown"

\* C22: an interrupt puts a Shutdown at the end of the channel and touches
\* no connection; and once a Shutdown waits in the channel, the loop stops
\* and the daemon ends with the socket file gone and the lock released,
\* paused or not, whatever clients have sent before.
C22_InterruptStops ==
    /\ [][ Interrupt =>
             /\ chan' = Send(chan, Cmd("Shutdown"), nextSeq)
             /\ conns' = conns /\ last' = last ]_vars
    /\ ShutdownQueued ~>
           (pc[1] = "exited" /\ exitCode[1] = 0 /\ ~sockExists /\ lockHeld = {})
    /\ [][ (ShutdownQueued /\ pc[1] = "loop" /\ pc'[1] = "terminated")
             => UNCHANGED <<daemonVars, conns>> ]_vars

\* C22 witness: a paused daemon that no client told to stop has ended in
\* order after an interrupt: status 0, no socket file, no lock.
C22_Witness ==
    /\ pc[1] = "exited"
    /\ exitCode[1] = 0
    /\ paused
    /\ last.sent = Cmd("Pause")
    /\ lastApplied = 2
    /\ ~sockExists
    /\ lockHeld = {}


(* -------------------- properties of the categories --------------------- *)

\* The name used for a category that is not reserved.
Plain == <<(<<108, 1>>)>>

\* C23: Categorise(cat) on the current wallpaper makes the link
\* root/.<cat>/<rel>, which resolves to the wallpaper, unless something is at
\* that path already; it makes nothing else, removes no link of any category
\* and leaves the wallpaper files, the queue and the index as they were.
C23_LinkMirrorsPath ==
    [][ (Dispatches("Categorise") /\ get_current(queue, index) # NoPath) =>
          LET src == get_current(queue, index)
              cat == Head(chan).cmd.category
          IN  /\ files' = files /\ queue' = queue /\ index' = index
              /\ links \subseteq links'
              /\ links' \ links \subseteq {<<cat, src>>}
              /\ cat # <<>> => <<cat, src>> \in links'
              /\ (cat # <<>> /\ src \in files) =>
                    /\ LinkPath(cat, src) \in Existing(files', links')
                    /\ RelOf(LinkPath(cat, src)) = src
                    /\ CatOf(LinkPath(cat, src)) = cat
              /\ cat = <<>> => links' = links ]_vars

\* C23 witness: one wallpaper was filed under a plain name, the other under
\* a reserved one; both links are there and both wallpapers still exist.
C23_Witness ==
    /\ pc[1] = "loop"
    /\ files = {1, 2}
    /\ <<Plain, 1>> \in links
    /\ <<Like, 2>> \in links
    /\ Cardinality(links) = 2

\* C24: no wallpaper is linked in both of the opposite categories.
C24_OppositeRejected ==
    \A f \in Paths : ~(<<Like, f>> \in links /\ <<Dislike, f>> \in links)

\* C25: the queue that start-up builds holds, each once, the wallpaper files
\* and the links with an existing target that the walk finds, without those
\* below .like and .dislike, and the index is 0; and at no time does the queue
\* hold a path below .like or .dislike.
C25_QueueLeavesMarkersOut ==
    /\ [][ DaemonNew =>
             /\ Len(queue') = Cardinality(Range(queue'))
             /\ \A p \in Range(queue') :
                  /\ p \in Existing(files, links)
                  /\ p < 0 => CatOf(p) \notin Reserved
             /\ \A p \in Existing(files, links) :
                  (p > 0 \/ CatOf(p) \notin Reserved) => p \in Range(queue')
             /\ index' = 0 ]_vars
    /\ [](\A k \in 1..Len(queue) :
             queue[k] < 0 => CatOf(queue[k]) \notin Reserved)

\* C25 witness: the daemon was started on a tree with a link below .like and
\* a link below another dot directory: its queue holds the wallpapers and the
\* latter link, not the former.
C25_Witness ==
    /\ pc[1] = "loop"
    /\ files = {1, 2}
    /\ \E f \in files : <<Like, f>> \in links
    /\ \E f \in files : LinkPath(Plain, f) \in Range(queue)
    /\ Len(queue) = 3

\* C26: the queue holds no path below a directory that Categorise made: each
\* of its entries is a wallpaper of the root.
C26_CategoriesStayOut ==
    \A k \in 1..Len(queue) : queue[k] \in Paths


(* ------------------- properties of a draining queue -------------------- *)

\* C33: whenever the loop takes a Categorise command from the channel the
\* queue has a current entry, and the step does not panic.
C33_CategoriseFindsCurrent ==
    [][ Dispatches("Categorise") =>
          (get_current(queue, index) # NoPath /\ pc'[1] # "panicked") ]_vars


\* The index an advance in this direction steps to before it looks at the
\* file there.
Candidate(forward) ==
    IF queue = <<>> THEN index
    ELSE IF forward THEN (index + 1) % Len(queue)
         ELSE (index + Len(queue) - 1) % Len(queue)

\* The place of entry x in queue q.
PlaceIn(q, x) == CHOOSE k \in 1..Len(q) : q[k] = x

\* This step is an advance in the given direction whose candidate's file is
\* missing.
Prunes(forward) ==
    /\ IF forward THEN Dispatches("Next") \/ (Timeout /\ ~paused)
       ELSE Dispatches("Previous")
    /\ queue # <<>>
    /\ queue[Candidate(forward) + 1] \notin files

\* C38: an advance that lands on a missing file leaves in the queue exactly
\* the entries whose files exist, in the order they had; the index is then
\* the smaller of the candidate index and len-1, and when nothing is left it
\* stays the candidate index.
C38_PruneKeepsExisting ==
    [][ \A forward \in BOOLEAN : Prunes(forward) =>
          /\ Range(queue') = Range(queue) \cap files
          /\ Len(queue') = Cardinality(Range(queue'))
          /\ \A a, b \in 1..Len(queue') :
               a < b => PlaceIn(queue, queue'[a]) < PlaceIn(queue, queue'[b])
          /\ queue' # <<>> => index' = Min(Candidate(forward), Len(queue') - 1)
          /\ queue' = <<>> => index' = Candidate(forward) ]_vars

\* C38 witness: the first advance went forward from index 0 of the full
\* queue, found the second entry's file missing and removed two entries, one
\* of them not the candidate; the index came down from 1 to 0.
C38_Witness ==
    /\ pc[1] = "loop"
    /\ Len(hist) >= 1
    /\ hist[1].forward /\ hist[1].pruned
    /\ hist[1].len = MaxPaths /\ hist[1].from = 0
    /\ Len(queue) = 1
    /\ hist[1].to = 0

(* ----------------------- what each command touches --------------------- *)

\* C37: Pause, Resume, Reload and Categorise leave the queue and the index
\* as they are and set no wallpaper; Next, Previous, Reload, Categorise and
\* timeouts leave the paused flag as it is, and a step of the running loop
\* that changes the flag dispatches Pause or Resume; a step of the running
\* loop that changes the config snapshot dispatches Reload.
C37_CommandFrames ==
    [][ /\ (\/ Dispatches("Pause") \/ Dispatches("Resume")
            \/ Dispatches("Reload") \/ Dispatches("Categorise"))
             => (queue' = queue /\ index' = index /\ justSet' = NoPath)
        /\ (\/ Dispatches("Next") \/ Dispatches("Previous")
            \/ Dispatches("Reload") \/ Dispatches("Categorise") \/ Timeout)
             => paused' = paused
        /\ (pc[1] = "loop" /\ paused' # paused)
             => (Dispatches("Pause") \/ Dispatches("Resume"))
        /\ (pc[1] = "loop" /\ config' # config) => Dispatches("Reload") ]_vars

\* C37 witness: a Reload took a config without shuffle while the queue is
\* in the shuffled order that run gave it under the former config; the
\* daemon is paused and a timeout has advanced the index.
C37_Witness ==
    /\ pc[1] = "loop"
    /\ paused
    /\ ~config.shuffle
    /\ ~Ascending(queue)
    /\ Len(queue) = MaxPaths
    /\ index = 1

(* ------------------ the algebra of Pause and Resume -------------------- *)

\* The daemon's queue, index and paused flag as one value.
DaemonState == [queue |-> queue, index |-> index, paused |-> paused]

\* What the arm of Pause, Resume, Next or Previous makes of the daemon state
\* d while the files on disk are as they stand.
Applied(tag, d) ==
    CASE tag = "Pause"  -> [d EXCEPT !.paused = pause(d.paused)]
      [] tag = "Resume" -> [d EXCEPT !.paused = resume(d.paused)]
      [] OTHER ->
           LET r == advance_wallpaper(d.queue, d.index,
                                      Existing(files, links), tag = "Next")
           IN  [queue |-> r.queue, index |-> r.index, paused |-> d.paused]

\* C32: every dispatch of Pause, Resume, Next or Previous turns the daemon
\* state d into Applied(tag, d); and in every state of the running loop
\* applying Pause or Resume twice gives what applying it once gives, and
\* applying it before Next or Previous gives what applying it after gives.
C32_PauseResumeAlgebra ==
    /\ [][ \A t \in {"Pause", "Resume", "Next", "Previous"} :
             Dispatches(t) => DaemonState' = Applied(t, DaemonState) ]_vars
    /\ [](pc[1] = "loop" =>
            \A t \in {"Pause", "Resume"} :
              /\ Applied(t, Applied(t, DaemonState)) = Applied(t, DaemonState)
              /\ \A a \in {"Next", "Previous"} :
                   Applied(t, Applied(a, DaemonState))
                     = Applied(a, Applied(t, DaemonState)))

\* C32 witness: two commands were dispatched, the second an advance that was
\* taken while the daemon was paused and that removed a stale entry.
C32_Witness ==
    /\ pc[1] = "loop"
    /\ paused
    /\ lastApplied = 2
    /\ justSet # NoPath
    /\ Len(queue) = MaxPaths - 1


(* -------------------- a start that loses the lock ---------------------- *)

\* C34: a start that finds the lock taken ends the process with status 1
\* in the same step and leaves the socket file, its owner, every listener,
\* the accept thread and the queued connections as they were; the process
\* never acts again, so the socket of the running daemon stays until that
\* daemon itself ends, and clients still connect to it.
C34_LoserLeavesSocket ==
    /\ [][ \A p \in Procs :
             (pc[p] = "built" /\ lockHeld # {} /\ IpcServer_new(p)) =>
                /\ pc'[p] = "exited" /\ exitCode'[p] = 1
                /\ UNCHANGED <<sockExists, sockOwner, listener, lockHeld,
                               acc, conns>> ]_vars
    /\ [][ \A p \in Procs :
             exitCode[p] = 1 =>
                /\ pc'[p] = "exited" /\ exitCode'[p] = 1
                /\ (sockExists /\ ~sockExists') =>
                      \E q \in Procs \ {p} : pc[q] # "exited" /\ pc'[q] = "exited" ]_vars
    /\ []((exitCode[2] = 1 /\ pc[1] \in {"serving", "loop"} /\ acc = "accepting")
             => Connects)

\* C34 witness: the second instance has lost the lock and exited with status
\* 1, and the first daemon has since dispatched one client command while a
\* further client connection waits on its listener.
C34_Witness ==
    /\ exitCode[2] = 1
    /\ pc[1] = "loop"
    /\ Connects
    /\ lastApplied = 1
    /\ conns # <<>>


(* ----------------- the socket after a Shutdown over it ----------------- *)

\* C39: the turn of the accept loop that forwards a Shutdown ends the accept
\* thread and closes the listener with every connection still queued on it;
\* from then on, as long as the process lives, the accept thread stays ended,
\* no client connects, and a command enters the channel only from the
\* watcher or the interrupt handler.
C39_NothingAfterShutdown ==
    /\ [][ (Accept /\ Len(chan') > Len(chan)
                   /\ chan'[Len(chan')].cmd.tag = "Shutdown")
             => (acc' = "exited" /\ ~listener'[1] /\ conns' = <<>>) ]_vars
    /\ [][ acc = "exited" =>
             /\ acc' = "exited" \/ pc'[1] = "exited"
             /\ ~Accept
             /\ conns' = <<>>
             /\ Len(chan') > Len(chan) => (Interrupt \/ WatchEvent) ]_vars
    /\ [](acc = "exited" => (~listener[1] /\ ~Connects /\ conns = <<>>))

\* C39 witness: nothing was dispatched yet; the channel holds the Shutdown
\* that came over the socket and, behind it, a Reload that the watcher sent
\* after the accept thread had ended.
C39_Witness ==
    /\ acc = "exited"
    /\ pc[1] = "loop"
    /\ lastApplied = 0
    /\ Len(chan) = 2
    /\ chan[1].cmd.tag = "Shutdown"
    /\ chan[2].cmd.tag = "Reload"


(* ------------------- the queue that ran out of files ------------------- *)

\* The self-sent Shutdown as it sits on the listener.
OwnShutdown == Conn(FrameOf(Cmd("Shutdown")), TRUE, Cmd("Shutdown"))

\* C36: an advance that leaves the queue empty sets no wallpaper and, when
\* the socket takes connections, queues a Shutdown on the daemon's own
\* listener; further timeouts and Next or Previous commands on the empty
\* queue do the same, leave the index alone and keep the loop running; and
\* an empty queue in the running loop, with the accept thread running, leads
\* to the loop having terminated.
C36_EmptyQueueShutsDown ==
    /\ [][ (Advances /\ queue' = <<>>) =>
             /\ justSet' = NoPath
             /\ pc'[1] = "loop"
             /\ Connects => conns' = Append(conns, OwnShutdown)
             /\ queue = <<>> => index' = index ]_vars
    /\ (pc[1] = "loop" /\ queue = <<>> /\ acc = "accepting")
          ~> (pc[1] = "terminated")

\* C36 witness: no client has sent anything, the queue is empty and the loop
\* has terminated: the Shutdown it dispatched is the one the daemon sent to
\* itself.
C36_Witness ==
    /\ pc[1] = "terminated"
    /\ queue = <<>>
    /\ budget.events = MaxEvents
    /\ lastApplied = 1
    /\ acc = "exited"

(* ------------------------ the timer of the loop ------------------------ *)

\* C35: the Timeout arm is taken, and so the timer rotates, only when a
\* whole interval has passed in the wait and since the loop last received a
\* command (or began); and every iteration that receives a command,
\* whatever the command, begins a wait of the whole interval with no time
\* spent in it.
C35_FullIntervalAfterCommand ==
    /\ [][ Timeout => (elapsed = config.interval /\ idle >= config.interval) ]_vars
    /\ [][ \A t \in Tags :
             (Dispatches(t) /\ pc'[1] = "loop") =>
                (elapsed' = 0 /\ idle' = 0 /\ wait' = config'.interval) ]_vars

\* C35 witness: Pause and Resume were dispatched, then a whole interval of
\* 300 seconds passed without a command and the timer rotated.
C35_Witness ==
    /\ pc[1] = "loop"
    /\ ~paused
    /\ config.interval = 300
    /\ lastApplied = 2
    /\ budget.events = 0
    /\ idle = 300
    /\ elapsed = 0
    /\ justSet # NoPath



C40_LegacyIndexStaysUnsigned ==
    /\ [][ \A forward \in BOOLEAN :
             LegacyAdvance(forward) =>
                /\ ~hist'[1].underflow
                /\ pc'[1] # "panicked"
                /\ queue' # <<>> => index' < Len(queue') ]_vars
    /\ [][ \A forward \in BOOLEAN :
             (LegacyAdvance(forward) /\ Range(queue) \cap files # {}
                 /\ index < Len(queue)) =>
                justSet' = Nearest(forward) ]_vars

=============================================================================
